---- MODULE Spec2Model ----
(***************************************************************************)
(* Model of the course-scheduling strategies of                            *)
(* backend/app/utils/algorithms.py: GraphBasedScheduler,                   *)
(* ConstraintSatisfactionScheduler and GeneticScheduler, and the           *)
(* module-level functions calculate_schedule_similarity and                *)
(* optimize_schedule_diversity.  One scheduler object is constructed       *)
(* and then called; the object's fields persist between calls exactly      *)
(* as the attributes set in __init__ do.                                   *)
(*                                                                         *)
(* The graph and constraint searches are one step per call.  A call of     *)
(* GeneticScheduler.optimize_schedule is a sequence of steps (pc), and     *)
(* its term dicts live in a heap indexed by object identity, because       *)
(* list.copy() and slices share the dicts between individuals.             *)
(*                                                                         *)
(* Floating point scores of the graph and constraint searches are kept     *)
(* in hundredths (0.85 is 85), genetic fitness in thousandths, and a       *)
(* similarity as a reduced fraction.  random is a choice over every        *)
(* outcome.  A Python dict is a function, together with its insertion      *)
(* order where the code iterates over it.                                  *)
(***************************************************************************)
EXTENDS Integers, Sequences, FiniteSets, TLC

VARIABLES cls, course_graph, course_data, variables, domains,
          calls, returned, courses, constraints, max_quarters, solution,
          fault,
          population_size, generations, mutation_rate, elite_size,
          preferences, pc, heap, population, fitness_scores,
          best_solution, best_score, generation, new_population,
          evaluated_scores, best_evaluated, elites_evaluated,
          fn, fn_in, fn_out

\* the fields of a GeneticScheduler object
genetic_fields == <<population_size, generations, mutation_rate, elite_size>>

\* the locals of a running GeneticScheduler.optimize_schedule; the last
\* three are history variables: every fitness computed so far, and the terms
\* of the best individual and of the elite as they were when evaluated
genetic_locals ==
    <<preferences, pc, heap, population, fitness_scores, best_solution,
      best_score, generation, new_population,
      evaluated_scores, best_evaluated, elites_evaluated>>

\* one application of a module-level function: its name, arguments, result
function_vars == <<fn, fn_in, fn_out>>

vars == <<cls, course_graph, course_data, variables, domains,
          calls, returned, courses, constraints, max_quarters, solution,
          fault, genetic_fields, genetic_locals, function_vars>>

(***************************************************************************)
(* Bounds of the model.                                                    *)
(***************************************************************************)
\* longest course list passed to one call
MaxCourses == 2
\* number of calls made on one scheduler object
MaxCalls == 2

(***************************************************************************)
(* Python lists, dicts and sets.                                           *)
(***************************************************************************)
Range(s) == {s[i] : i \in 1..Len(s)}

\* x in list
InSeq(x, s) == \E i \in 1..Len(s) : s[i] = x

\* the empty dict
EmptyDict == [k \in {} |-> 0]

\* d[key] = value on a dict
DictSet(d, key, value) ==
    [k \in (DOMAIN d) \cup {key} |-> IF k = key THEN value ELSE d[k]]

\* list.remove(x): drops the first occurrence
RECURSIVE ListRemove(_, _)
ListRemove(s, x) ==
    IF s = <<>> THEN <<>>
    ELSE IF Head(s) = x THEN Tail(s)
    ELSE <<Head(s)>> \o ListRemove(Tail(s), x)

RECURSIVE SumSeq(_)
SumSeq(s) == IF s = <<>> THEN 0 ELSE Head(s) + SumSeq(Tail(s))

(***************************************************************************)
(* SchedulingNode and SchedulingSolution.                                  *)
(***************************************************************************)
SchedulingNode(id, u, d, prereqs, offered) ==
    [course_id |-> id, units |-> u, difficulty |-> d,
     prerequisites |-> prereqs, offered_quarters |-> offered]

SchedulingSolution(q, score, f, v) ==
    [quarters |-> q, total_score |-> score, feasible |-> f, violations |-> v]

\* the entry a scheduler appends to a term for an admitted course
CourseEntry(course) ==
    [id |-> course.course_id, units |-> course.units,
     difficulty |-> course.difficulty]

(***************************************************************************)
(* Term labels.                                                            *)
(***************************************************************************)
quarters == <<"Fall", "Winter", "Spring">>
BaseYear == 2024
\* the graph strategy's term walk stops before this index
HorizonQuarters == 12
\* solve_schedule's default for max_quarters
DefaultMaxQuarters == 12

\* f"{quarter} {year}"
FormatLabel(quarter, year) == quarter \o " " \o ToString(year)

\* a year of four terms
Graph_get_quarter_name_year_of_four(quarter_idx) ==
    LET year == BaseYear + (quarter_idx \div 4)
        quarter == quarters[(quarter_idx % 3) + 1]
    IN  FormatLabel(quarter, year)

Graph_get_quarter_name(quarter_idx) ==
    LET year == BaseYear + (quarter_idx \div 3)
        quarter == quarters[(quarter_idx % 3) + 1]
    IN  FormatLabel(quarter, year)

\* every label a term index below the horizon can get
Labels ==
    {FormatLabel(w, y) : w \in Range(quarters),
                         y \in BaseYear..(BaseYear + HorizonQuarters \div 3)}

\* label.split()[0], tabulated: the word before the blank of each label
FirstWord ==
    [label \in Labels |->
        CHOOSE w \in Range(quarters) :
            \E y \in BaseYear..(BaseYear + HorizonQuarters \div 3) :
                FormatLabel(w, y) = label]

\* quarter_name.split()[0]
SplitFirst(quarter_name) == FirstWord[quarter_name]

(***************************************************************************)
(* GraphBasedScheduler.                                                    *)
(* course_graph is the nx.DiGraph: its nodes and its edges, each in        *)
(* insertion order (networkx keeps both in dicts).                         *)
(***************************************************************************)
EmptyGraph == [nodes |-> <<>>, edges |-> <<>>]

\* a node list that keeps a repeated node
add_node_again(G, n) == [G EXCEPT !.nodes = Append(@, n)]

\* DiGraph.add_node
add_node(G, n) ==
    IF InSeq(n, G.nodes) THEN G ELSE [G EXCEPT !.nodes = Append(@, n)]

\* DiGraph.add_edge: both ends become nodes, a repeated edge is kept once
add_edge(G, u, v) ==
    LET G1 == add_node(add_node(G, u), v)
    IN  IF InSeq(<<u, v>>, G1.edges) THEN G1
        ELSE [G1 EXCEPT !.edges = Append(@, <<u, v>>)]

\* first loop of _build_graph
RECURSIVE AddNodes(_, _, _)
AddNodes(G, data, cs) ==
    IF cs = <<>> THEN [graph |-> G, data |-> data]
    ELSE AddNodes(add_node(G, Head(cs).course_id),
                  DictSet(data, Head(cs).course_id, Head(cs)),
                  Tail(cs))

\* inner loop of _build_graph: the prerequisites of one course
RECURSIVE AddPrereqEdges(_, _, _, _)
AddPrereqEdges(G, data, course_id, prereqs) ==
    IF prereqs = <<>> THEN G
    ELSE AddPrereqEdges(
            IF Head(prereqs) \in DOMAIN data
            THEN add_edge(G, Head(prereqs), course_id) ELSE G,
            data, course_id, Tail(prereqs))

\* second loop of _build_graph
RECURSIVE AddEdges(_, _, _)
AddEdges(G, data, cs) ==
    IF cs = <<>> THEN G
    ELSE AddEdges(AddPrereqEdges(G, data, Head(cs).course_id,
                                 Head(cs).prerequisites),
                  data, Tail(cs))

\* _build_graph adds to the graph and the course table the object holds
Graph_build_graph(G, data, cs) ==
    LET n == AddNodes(G, data, cs)
    IN  [graph |-> AddEdges(n.graph, n.data, cs), data |-> n.data]

(***************************************************************************)
(* networkx: topological_sort yields the topological generations in turn   *)
(* (Kahn's algorithm, each generation in discovery order), and             *)
(* is_directed_acyclic_graph holds when that sort reaches every node.      *)
(***************************************************************************)
InDegree(G, n) == Cardinality({i \in 1..Len(G.edges) : G.edges[i][2] = n})

\* G.neighbors(n), in insertion order
Neighbors(G, n) ==
    LET out == SelectSeq(G.edges, LAMBDA e : e[1] = n)
    IN  [i \in 1..Len(out) |-> out[i][2]]

\* one pass over this_generation: children whose in-degree drops to zero
RECURSIVE NextGeneration(_, _, _, _)
NextGeneration(G, todo, indeg, zero) ==
    IF todo = <<>> THEN [indeg |-> indeg, zero |-> zero]
    ELSE LET node == Head(todo)
             kids == Neighbors(G, node)
             step[i \in 0..Len(kids)] ==
                 IF i = 0 THEN [indeg |-> indeg, zero |-> zero]
                 ELSE LET p == step[i - 1]
                          c == kids[i]
                          d == p.indeg[c] - 1
                      IN  [indeg |-> [p.indeg EXCEPT ![c] = d],
                           zero |-> IF d = 0 THEN Append(p.zero, c)
                                    ELSE p.zero]
             r == step[Len(kids)]
         IN  NextGeneration(G, Tail(todo), r.indeg, r.zero)

RECURSIVE Generations(_, _, _, _)
Generations(G, this_generation, indeg, order) ==
    IF this_generation = <<>> THEN order
    ELSE LET r == NextGeneration(G, this_generation, indeg, <<>>)
         IN  Generations(G, r.zero, r.indeg, order \o this_generation)

\* the nodes the sort yields before it runs out of zero in-degree nodes
topological_sort(G) ==
    LET indeg == [n \in Range(G.nodes) |-> InDegree(G, n)]
        zero == SelectSeq(G.nodes, LAMBDA n : indeg[n] = 0)
    IN  Generations(G, zero, indeg, <<>>)

is_directed_acyclic_graph(G) == Len(topological_sort(G)) = Len(G.nodes)

(***************************************************************************)
(* GraphBasedScheduler._create_schedule_from_order.                        *)
(***************************************************************************)
DefaultMaxUnits == 20
DefaultMinUnits == 12
\* a scan of a term that goes on to a fourth course
EnoughCourses_one_more == 2 + 2
\* "enough for this term": the scan of a term ends at this many courses
EnoughCourses == 3

\* dict.get(key, default) on the constraints
ConstraintGet(cons, key, default) ==
    IF key \in DOMAIN cons THEN cons[key] ELSE default

\* all(prereq in completed_courses for prereq in course.prerequisites)
PrereqsCompleted(course, completed_courses) ==
    \A i \in 1..Len(course.prerequisites) :
        course.prerequisites[i] \in completed_courses

\* an availability check that only asks for some offered season
OfferedIn_any_season(course, season) == course.offered_quarters # <<>>

\* season not in course.offered_quarters, negated
OfferedIn(course, season) == InSeq(season, course.offered_quarters)

\* a unit check that forgets the units of the course being admitted
ExceedsMaxUnits_before_adding(quarter_units, course, max_units) ==
    quarter_units > max_units

\* quarter_units + course.units > max_units
ExceedsMaxUnits(quarter_units, course, max_units) ==
    quarter_units + course.units > max_units

\* The for loop over remaining_courses.copy() of one term.  st holds the
\* loop's variables: quarter_courses, quarter_units, remaining_courses and
\* completed_courses.
RECURSIVE ScanQuarter(_, _, _, _, _, _)
ScanQuarter(data, season, max_units, min_units, todo, st) ==
    IF todo = <<>> THEN st
    ELSE LET course_id == Head(todo)
             course == data[course_id]
         IN  IF ~PrereqsCompleted(course, st.completed_courses)
             THEN ScanQuarter(data, season, max_units, min_units, Tail(todo), st)
             ELSE IF ~OfferedIn(course, season)
             THEN ScanQuarter(data, season, max_units, min_units, Tail(todo), st)
             ELSE IF ExceedsMaxUnits(st.quarter_units, course, max_units)
             THEN ScanQuarter(data, season, max_units, min_units, Tail(todo), st)
             ELSE LET st1 ==
                        [quarter_courses |->
                             Append(st.quarter_courses, CourseEntry(course)),
                         quarter_units |-> st.quarter_units + course.units,
                         remaining_courses |->
                             ListRemove(st.remaining_courses, course_id),
                         completed_courses |->
                             st.completed_courses \cup {course_id}]
                  IN  IF st1.quarter_units >= min_units
                         /\ Len(st1.quarter_courses) >= EnoughCourses
                      THEN st1
                      ELSE ScanQuarter(data, season, max_units, min_units,
                                       Tail(todo), st1)

\* the while loop: one term per round
RECURSIVE WalkQuarters(_, _, _, _, _, _, _)
WalkQuarters(data, max_units, min_units, quarter_idx, remaining_courses, completed_courses, schedule) ==
    IF ~(remaining_courses # <<>> /\ quarter_idx < HorizonQuarters)
    THEN schedule
    ELSE LET quarter_name == Graph_get_quarter_name(quarter_idx)
             season == SplitFirst(quarter_name)
             st == ScanQuarter(data, season, max_units, min_units,
                               remaining_courses,
                               [quarter_courses |-> <<>>,
                                quarter_units |-> 0,
                                remaining_courses |-> remaining_courses,
                                completed_courses |-> completed_courses])
             schedule1 ==
                 IF st.quarter_courses # <<>>
                 THEN Append(schedule,
                             [quarter |-> quarter_name,
                              courses |-> st.quarter_courses,
                              total_units |-> st.quarter_units])
                 ELSE schedule
         IN  WalkQuarters(data, max_units, min_units, quarter_idx + 1,
                          st.remaining_courses, st.completed_courses, schedule1)

Graph_create_schedule_from_order(data, topo_order, cons) ==
    LET max_units == ConstraintGet(cons, "max_units_per_quarter", DefaultMaxUnits)
        min_units == ConstraintGet(cons, "min_units_per_quarter", DefaultMinUnits)
    IN  WalkQuarters(data, max_units, min_units, 0, topo_order, {}, <<>>)

(***************************************************************************)
(* GraphBasedScheduler.create_optimal_schedule, as a function of the      *)
(* object's fields before the call: the fields after it and the solution. *)
(***************************************************************************)
GraphScore == 85
ZeroScore == 0
CycleViolation == "Prerequisite cycle detected"

\* The exception a call raised inside its try block: <<>> when none was
\* raised, <<str(e)>> otherwise.
NoFault == <<>>

\* a handler that reports nothing
ExceptionSolution_silent(e) == SchedulingSolution(<<>>, ZeroScore, FALSE, <<>>)

\* except Exception as e: return SchedulingSolution([], 0.0, False, [str(e)])
ExceptionSolution(e) == SchedulingSolution(<<>>, ZeroScore, FALSE, <<e>>)

create_optimal_schedule(G, data, cs, cons) ==
    LET b == Graph_build_graph(G, data, cs)
    IN  [course_graph |-> b.graph,
         course_data |-> b.data,
         fault |-> NoFault,
         solution |->
            IF ~is_directed_acyclic_graph(b.graph)
            THEN SchedulingSolution(<<>>, ZeroScore, FALSE, <<CycleViolation>>)
            ELSE SchedulingSolution(
                    Graph_create_schedule_from_order(
                        b.data, topological_sort(b.graph), cons),
                    GraphScore, TRUE, <<>>)]

(***************************************************************************)
(* ConstraintSatisfactionScheduler.                                        *)
(* An assignment (a dict course id -> term index) is the sequence of its   *)
(* items <<var, value>> in insertion order.                                *)
(***************************************************************************)
CSP_get_quarter_name(quarter_idx) ==
    LET year == BaseYear + (quarter_idx \div 3)
        quarter == quarters[(quarter_idx % 3) + 1]
    IN  FormatLabel(quarter, year)

\* a domain that keeps a course with prerequisites out of the first term
PossibleQuarters_after_prerequisites(course, mq) ==
    LET idx == [i \in 1..mq |-> i - 1]
    IN  SelectSeq(idx, LAMBDA quarter_idx :
            /\ InSeq(SplitFirst(CSP_get_quarter_name(quarter_idx)),
                     course.offered_quarters)
            /\ (course.prerequisites = <<>> \/ quarter_idx > 0))

\* the domain _setup_csp computes for one course
PossibleQuarters(course, mq) ==
    LET idx == [i \in 1..mq |-> i - 1]
    IN  SelectSeq(idx, LAMBDA quarter_idx :
            InSeq(SplitFirst(CSP_get_quarter_name(quarter_idx)),
                  course.offered_quarters))

\* the loop of _setup_csp over the courses, writing into self.domains
RECURSIVE SetupDomains(_, _, _)
SetupDomains(doms, cs, mq) ==
    IF cs = <<>> THEN doms
    ELSE SetupDomains(
            DictSet(doms, Head(cs).course_id, PossibleQuarters(Head(cs), mq)),
            Tail(cs), mq)

CSP_setup_csp(doms, cs, mq) ==
    [variables |-> [i \in 1..Len(cs) |-> cs[i].course_id],
     domains |-> SetupDomains(doms, cs, mq)]

\* per-term course ceiling of _is_consistent
MaxCoursesPerQuarter == 5

Assigned(assignment, var) ==
    \E i \in 1..Len(assignment) : assignment[i][1] = var

\* a check that lets a sixth course into a term
CSP_is_consistent_six(var, value, assignment) ==
    LET quarter_courses ==
            SelectSeq(assignment, LAMBDA item : item[2] = value) \o <<var>>
    IN  Len(quarter_courses) <= MaxCoursesPerQuarter + 1

CSP_is_consistent(var, value, assignment) ==
    LET quarter_courses ==
            SelectSeq(assignment, LAMBDA item : item[2] = value) \o <<var>>
    IN  Len(quarter_courses) <= MaxCoursesPerQuarter

\* min(unassigned, key=lambda x: len(self.domains[x])): the first minimum
MinByDomain(unassigned, doms) ==
    LET i == CHOOSE i \in 1..Len(unassigned) :
                /\ \A j \in 1..Len(unassigned) :
                       Len(doms[unassigned[i]]) <= Len(doms[unassigned[j]])
                /\ \A j \in 1..(i - 1) :
                       Len(doms[unassigned[j]]) > Len(doms[unassigned[i]])
    IN  unassigned[i]

\* str(e) of the ValueError min() raises on an empty list
MinEmptyError == "min() arg is an empty sequence"

Found(assignment) == [status |-> "found", assignment |-> assignment]
NotFound == [status |-> "none", assignment |-> <<>>]
Raised == [status |-> "raised", assignment |-> <<>>]

\* del assignment[var]
DictDel(assignment, var) == SelectSeq(assignment, LAMBDA item : item[1] # var)

\* assignment[var] = value, and del assignment[var]: the dict before the
\* write and after it
Write(op, var, before, after) ==
    [op |-> op, var |-> var, before |-> before, after |-> after]

\* what a call of _backtrack_search gives back: its result, the assignment
\* dict as the call leaves it, and the writes it made to the dict, in order
Returning(result, left, writes) ==
    [status |-> result.status, assignment |-> result.assignment,
     left |-> left, writes |-> writes]

\* _backtrack_search, and its loop over the values of the chosen variable.
\* _forward_check returns {} and _restore_domains does nothing, so every
\* consistent value leads to the recursive call.  The one assignment dict
\* is written by every level of the recursion; an exception leaves it as
\* it is.
RECURSIVE CSP_backtrack_search(_, _, _)
RECURSIVE TryValues(_, _, _, _, _)
CSP_backtrack_search(vs, doms, assignment) ==
    IF Len(assignment) = Len(vs)
    THEN Returning(Found(assignment), assignment, <<>>)
    ELSE LET unassigned == SelectSeq(vs, LAMBDA v : ~Assigned(assignment, v))
         IN  IF unassigned = <<>>
             THEN Returning(Raised, assignment, <<>>)
             ELSE LET var == MinByDomain(unassigned, doms)
                  IN  TryValues(vs, doms, var, doms[var], assignment)

TryValues(vs, doms, var, values, assignment) ==
    IF values = <<>> THEN Returning(NotFound, assignment, <<>>)
    ELSE IF CSP_is_consistent(var, Head(values), assignment)
         THEN LET assigned == Append(assignment, <<var, Head(values)>>)
                  set == Write("set", var, assignment, assigned)
                  result == CSP_backtrack_search(vs, doms, assigned)
              IN  IF result.status = "none"
                  THEN LET restored == DictDel(result.left, var)
                           del == Write("del", var, result.left, restored)
                           rest == TryValues(vs, doms, var, Tail(values),
                                             restored)
                       IN  Returning(rest, rest.left,
                                     <<set>> \o result.writes \o <<del>>
                                         \o rest.writes)
                  ELSE Returning(result, result.left,
                                 <<set>> \o result.writes)
         ELSE TryValues(vs, doms, var, Tail(values), assignment)

\* course_map = {course.course_id: course for course in courses}
CourseMap(cs) ==
    [id \in {cs[i].course_id : i \in 1..Len(cs)} |->
        LET last == CHOOSE i \in 1..Len(cs) :
                        /\ cs[i].course_id = id
                        /\ \A j \in (i + 1)..Len(cs) : cs[j].course_id # id
        IN  cs[last]]

\* sorted(keys), keys a finite set of integers
RECURSIVE SortedSeq(_)
SortedSeq(S) ==
    IF S = {} THEN <<>>
    ELSE LET m == CHOOSE x \in S : \A y \in S : x <= y
         IN  <<m>> \o SortedSeq(S \ {m})

CSP_convert_assignment_to_schedule(assignment, cs) ==
    LET course_map == CourseMap(cs)
        keys == SortedSeq({assignment[i][2] : i \in 1..Len(assignment)})
        entries(quarter_idx) ==
            LET items == SelectSeq(assignment, LAMBDA item : item[2] = quarter_idx)
            IN  [i \in 1..Len(items) |-> CourseEntry(course_map[items[i][1]])]
    IN  [k \in 1..Len(keys) |->
            LET courses_in_quarter == entries(keys[k])
            IN  [quarter |-> CSP_get_quarter_name(keys[k]),
                 courses |-> courses_in_quarter,
                 total_units |->
                     SumSeq([i \in 1..Len(courses_in_quarter) |->
                                courses_in_quarter[i].units])]]

CspScore == 80
NoScheduleViolation == "No feasible schedule found"

\* solve_schedule, as a function of the object's fields before the call
solve_schedule(doms, cs, cons, mq) ==
    LET csp == CSP_setup_csp(doms, cs, mq)
        result == CSP_backtrack_search(csp.variables, csp.domains, <<>>)
    IN  [variables |-> csp.variables,
         domains |-> csp.domains,
         fault |-> IF result.status = "raised" THEN <<MinEmptyError>>
                   ELSE NoFault,
         solution |->
            IF result.status = "raised"
            THEN ExceptionSolution(MinEmptyError)
            ELSE IF result.status = "found" /\ result.assignment # <<>>
            THEN SchedulingSolution(
                    CSP_convert_assignment_to_schedule(result.assignment, cs),
                    CspScore, TRUE, <<>>)
            ELSE SchedulingSolution(<<>>, ZeroScore, FALSE,
                                    <<NoScheduleViolation>>)]

(***************************************************************************)
(* The inputs of the calls.                                                *)
(***************************************************************************)
CourseIds == {"A", "B"}
\* an id no course of any input has
UnknownId == "Z"
UnitsOf == [id \in CourseIds |-> IF id = "A" THEN 4 ELSE 8]
DifficultyOf == [id \in CourseIds |-> IF id = "A" THEN 2 ELSE 3]
PrereqChoices == {<<>>} \cup {<<p>> : p \in CourseIds \cup {UnknownId}}
OfferedChoices == {<<"Fall">>, <<"Winter">>}

Catalog ==
    {SchedulingNode(id, UnitsOf[id], DifficultyOf[id], p, o) :
        id \in CourseIds, p \in PrereqChoices, o \in OfferedChoices}

\* every list of at most MaxCourses courses, repeated ids included
CourseLists == UNION {[1..n -> Catalog] : n \in 0..MaxCourses}

Constraints(max_units, min_units) ==
    [max_units_per_quarter |-> max_units, min_units_per_quarter |-> min_units]

\* the example's configuration also carries its number of terms
E2EConstraints(max_units, min_units) ==
    [max_units_per_quarter |-> max_units, min_units_per_quarter |-> min_units,
     max_quarters |-> 6]

ConstraintChoices == {EmptyDict, Constraints(4, 4), Constraints(8, 4)}

MaxQuartersChoices == {1, DefaultMaxQuarters}

\* the six courses of the end-to-end example
E2ECourses ==
    << SchedulingNode("C1", 4, 3, <<>>, <<"Fall">>),
       SchedulingNode("C2", 4, 3, <<>>, <<"Fall">>),
       SchedulingNode("C3", 4, 3, <<"C1">>, <<"Winter">>),
       SchedulingNode("C4", 4, 3, <<"C2">>, <<"Winter">>),
       SchedulingNode("C5", 4, 3, <<"C3", "C4">>, <<"Spring">>),
       SchedulingNode("C6", 4, 3, <<"C5">>, <<"Fall">>) >>

\* the courses of s at the positions in keep, in order
SubList(s, keep) ==
    LET pos == SelectSeq([i \in 1..Len(s) |-> i], LAMBDA i : i \in keep)
    IN  [k \in 1..Len(pos) |-> s[pos[k]]]

\* the example and every selection of its courses
E2ECourseLists == {SubList(E2ECourses, keep) : keep \in SUBSET (1..Len(E2ECourses))}

E2EConstraintChoices ==
    {E2EConstraints(4, 4), E2EConstraints(8, 4), E2EConstraints(12, 4)}

(***************************************************************************)
(* The state machine: construction, then calls on the object.              *)
(***************************************************************************)
GraphCls == "GraphBasedScheduler"
CspCls == "ConstraintSatisfactionScheduler"

\* solution before the first call returns
\* no GeneticScheduler was constructed and none is running
GeneticIdle ==
    /\ population_size = 0
    /\ generations = 0
    /\ mutation_rate = 0
    /\ elite_size = 0
    /\ preferences = EmptyDict
    /\ pc = "idle"
    /\ heap = <<>>
    /\ population = <<>>
    /\ fitness_scores = <<>>
    /\ best_solution = <<>>
    /\ best_score = 0
    /\ generation = 0
    /\ new_population = <<>>
    /\ evaluated_scores = <<>>
    /\ best_evaluated = <<>>
    /\ elites_evaluated = <<>>

\* no module-level function was applied
FunctionIdle ==
    /\ fn = "none"
    /\ fn_in = <<>>
    /\ fn_out = <<>>

NoSolution == SchedulingSolution(<<>>, ZeroScore, FALSE, <<>>)

\* __init__ of either class
Constructed(c) ==
    /\ cls = c
    /\ course_graph = EmptyGraph
    /\ course_data = EmptyDict
    /\ variables = <<>>
    /\ domains = EmptyDict
    /\ calls = 0
    /\ returned = FALSE
    /\ courses = <<>>
    /\ constraints = EmptyDict
    /\ max_quarters = DefaultMaxQuarters
    /\ solution = NoSolution
    /\ fault = NoFault
    /\ GeneticIdle
    /\ FunctionIdle

Init == \E c \in {GraphCls, CspCls} : Constructed(c)

\* a call is made once the caller is done with the previous one
CreateOptimalSchedule(cs, cons) ==
    /\ cls = GraphCls
    /\ ~returned
    /\ LET r == create_optimal_schedule(course_graph, course_data, cs, cons)
       IN  /\ course_graph' = r.course_graph
           /\ course_data' = r.course_data
           /\ solution' = r.solution
           /\ fault' = r.fault
    /\ courses' = cs
    /\ constraints' = cons
    /\ calls' = calls + 1
    /\ returned' = TRUE
    /\ UNCHANGED <<cls, variables, domains, max_quarters>>
    /\ UNCHANGED <<genetic_fields, genetic_locals, function_vars>>

SolveSchedule(cs, cons, mq) ==
    /\ cls = CspCls
    /\ ~returned
    /\ LET r == solve_schedule(domains, cs, cons, mq)
       IN  /\ variables' = r.variables
           /\ domains' = r.domains
           /\ solution' = r.solution
           /\ fault' = r.fault
    /\ courses' = cs
    /\ constraints' = cons
    /\ max_quarters' = mq
    /\ calls' = calls + 1
    /\ returned' = TRUE
    /\ UNCHANGED <<cls, course_graph, course_data>>
    /\ UNCHANGED <<genetic_fields, genetic_locals, function_vars>>

\* The caller drops the arguments and the solution of the call that
\* returned ("discarded on return"); the scheduler object keeps its fields.
Discard ==
    /\ returned
    /\ returned' = FALSE
    /\ courses' = <<>>
    /\ constraints' = EmptyDict
    /\ max_quarters' = DefaultMaxQuarters
    /\ solution' = NoSolution
    /\ fault' = NoFault
    /\ UNCHANGED <<cls, course_graph, course_data, variables, domains, calls>>
    /\ UNCHANGED <<genetic_fields, genetic_locals, function_vars>>

GraphCall ==
    /\ calls < MaxCalls
    /\ \E cs \in CourseLists, cons \in ConstraintChoices :
            CreateOptimalSchedule(cs, cons)

CspCall ==
    /\ calls < MaxCalls
    /\ \E cs \in CourseLists, cons \in ConstraintChoices,
          mq \in MaxQuartersChoices :
            SolveSchedule(cs, cons, mq)

Next == GraphCall \/ CspCall \/ Discard

Spec == Init /\ [][Next]_vars

\* one call of a new GraphBasedScheduler on a selection of the example
InitE2E == Constructed(GraphCls)

NextE2E ==
    /\ calls = 0
    /\ \E cs \in E2ECourseLists, cons \in E2EConstraintChoices :
            CreateOptimalSchedule(cs, cons)

SpecE2E == InitE2E /\ [][NextE2E]_vars

(***************************************************************************)
(* Vocabulary of the properties.                                           *)
(***************************************************************************)
InputIds == {courses[i].course_id : i \in 1..Len(courses)}

\* the descriptor the call's input gives for an id (the last one, if repeated)
InputCourse(id) == CourseMap(courses)[id]

DistinctIds(cs) ==
    \A i, j \in 1..Len(cs) : cs[i].course_id = cs[j].course_id => i = j

TermIds(term) == {term.courses[i].id : i \in 1..Len(term.courses)}

\* every <<term, position>> of the returned solution
Placements ==
    UNION {{<<k, i>> : i \in 1..Len(solution.quarters[k].courses)} :
              k \in 1..Len(solution.quarters)}

PlacedAt(pl) == solution.quarters[pl[1]].courses[pl[2]]

PlacedIds == {PlacedAt(pl).id : pl \in Placements}

\* the pairs <<prerequisite, course>> among the supplied courses
PrereqPairs(cs) ==
    LET ids == {cs[i].course_id : i \in 1..Len(cs)}
    IN  UNION {{<<cs[i].prerequisites[j], cs[i].course_id>> :
                   j \in {j \in 1..Len(cs[i].prerequisites) :
                             cs[i].prerequisites[j] \in ids}} :
               i \in 1..Len(cs)}

RECURSIVE TransitiveClosure(_)
TransitiveClosure(R) ==
    LET R2 == R \cup {<<ef[1][1], ef[2][2]>> :
                         ef \in {p \in R \X R : p[1][2] = p[2][1]}}
    IN  IF R2 = R THEN R ELSE TransitiveClosure(R2)

\* the prerequisite relation among the supplied courses contains a cycle
HasCycle(cs) == \E e \in TransitiveClosure(PrereqPairs(cs)) : e[1] = e[2]

GraphReturned == returned /\ cls = GraphCls
CspReturned == returned /\ cls = CspCls

CycleSolution == SchedulingSolution(<<>>, ZeroScore, FALSE, <<CycleViolation>>)

(***************************************************************************)
(* Properties of GraphBasedScheduler.create_optimal_schedule.              *)
(***************************************************************************)

\* C1: for an acyclic input, every assigned course has each prerequisite
\* that is in the input set assigned to a strictly earlier term; a course
\* and one of its prerequisites never share a term.
GraphPrereqsStrictlyEarlier ==
    (GraphReturned /\ ~HasCycle(courses)) =>
        \A pl \in Placements :
            PlacedAt(pl).id \in InputIds =>
                LET prereqs == InputCourse(PlacedAt(pl).id).prerequisites
                IN  \A j \in 1..Len(prereqs) :
                        prereqs[j] \in InputIds =>
                            \E k \in 1..(pl[1] - 1) :
                                prereqs[j] \in TermIds(solution.quarters[k])

\* C2: the returned solution contains no course id more than once, neither
\* within one term nor across terms.
GraphNoCourseTwice ==
    GraphReturned =>
        \A p1, p2 \in Placements :
            PlacedAt(p1).id = PlacedAt(p2).id => p1 = p2

\* a repeated id in the input is scheduled, once
GraphRepeatedIdScheduled ==
    /\ GraphReturned
    /\ ~DistinctIds(courses)
    /\ PlacedIds \cap InputIds # {}

\* C3: the call returns feasible=false, no terms and the violation
\* "Prerequisite cycle detected" whenever the prerequisite relation among
\* the supplied courses has a cycle, and for no acyclic input.
GraphCycleResultIffCycle ==
    GraphReturned => (HasCycle(courses) <=> solution = CycleSolution)

\* C4: a call returns what the same call returns on a newly constructed
\* scheduler, whatever calls the object served before.
SolutionOfNewScheduler ==
    IF cls = GraphCls
    THEN create_optimal_schedule(EmptyGraph, EmptyDict, courses,
                                 constraints).solution
    ELSE solve_schedule(EmptyDict, courses, constraints, max_quarters).solution

CallDependsOnArgumentsOnly == returned => solution = SolutionOfNewScheduler

\* C5: the six-course example with max 8 units, min 4 units and 6 terms
\* gives {C1,C2} in "Fall 2024", {C3,C4} in "Winter 2024", {C5} in
\* "Spring 2024", {C6} in "Fall 2025", feasible and without violations.
E2EReturned ==
    /\ GraphReturned
    /\ courses = E2ECourses
    /\ constraints = E2EConstraints(8, 4)

E2EExampleSchedule ==
    E2EReturned =>
        /\ solution.feasible
        /\ solution.violations = <<>>
        /\ Len(solution.quarters) = 4
        /\ [k \in 1..4 |-> solution.quarters[k].quarter] =
               <<"Fall 2024", "Winter 2024", "Spring 2024", "Fall 2025">>
        /\ [k \in 1..4 |-> TermIds(solution.quarters[k])] =
               <<{"C1", "C2"}, {"C3", "C4"}, {"C5"}, {"C6"}>>
        /\ \A k \in 1..4 :
               Len(solution.quarters[k].courses) =
                   Cardinality(TermIds(solution.quarters[k]))

E2EExampleReturned == E2EReturned /\ solution.feasible

\* the season a term label names, read off the label itself
SeasonOfLabel ==
    [label \in {w \o " " \o ToString(y) :
                   w \in {"Fall", "Winter", "Spring"}, y \in 2024..2028} |->
        CHOOSE w \in {"Fall", "Winter", "Spring"} :
            \E y \in 2024..2028 : label = w \o " " \o ToString(y)]

\* the maximum units per term the call was configured with
ConfiguredMaxUnits ==
    ConstraintGet(constraints, "max_units_per_quarter", DefaultMaxUnits)

\* C6: a prerequisite id absent from the supplied courses counts as
\* satisfied: a course of a new scheduler's input whose prerequisites are
\* all unknown, and whose units fit a term, is scheduled.
GraphUnknownPrereqIgnored ==
    (GraphReturned /\ calls = 1 /\ DistinctIds(courses) /\ ~HasCycle(courses)) =>
        \A i \in 1..Len(courses) :
            ( /\ \A j \in 1..Len(courses[i].prerequisites) :
                     courses[i].prerequisites[j] \notin InputIds
              /\ courses[i].units <= ConfiguredMaxUnits )
            => courses[i].course_id \in PlacedIds

(***************************************************************************)
(* Properties of ConstraintSatisfactionScheduler.solve_schedule.           *)
(***************************************************************************)
SeasonOfIndex(quarter_idx) == <<"Fall", "Winter", "Spring">>[(quarter_idx % 3) + 1]

\* some assignment puts every input course in a term of its domain, with
\* at most 5 courses in each term
Assignable ==
    \E f \in [1..Len(courses) -> 0..(max_quarters - 1)] :
        /\ \A i \in 1..Len(courses) :
               InSeq(SeasonOfIndex(f[i]), courses[i].offered_quarters)
        /\ \A q \in 0..(max_quarters - 1) :
               Cardinality({i \in 1..Len(courses) : f[i] = q}) <= 5

\* C7: the call returns feasible=true, score 0.8, no violations and every
\* input course exactly once if such an assignment exists (the empty course
\* list included), and otherwise feasible=false, no terms and the single
\* violation "No feasible schedule found".
CspFeasibleIffAssignable ==
    (CspReturned /\ DistinctIds(courses)) =>
        IF Assignable
        THEN /\ solution.feasible
             /\ solution.total_score = 80
             /\ solution.violations = <<>>
             /\ PlacedIds = InputIds
             /\ Cardinality(Placements) = Len(courses)
        ELSE solution = SchedulingSolution(<<>>, 0, FALSE,
                                           <<"No feasible schedule found">>)

\* C8: no solution returned with feasible=true has a term whose total units
\* exceed the configured maximum units per term.
CspCapacityHard ==
    ( /\ CspReturned
      /\ solution.feasible
      /\ "max_units_per_quarter" \in DOMAIN constraints ) =>
        \A k \in 1..Len(solution.quarters) :
            solution.quarters[k].total_units <=
                constraints["max_units_per_quarter"]

(***************************************************************************)
(* Unit totals and offered seasons.                                        *)
(***************************************************************************)

\* C9: in every solution of the graph strategy each term's units sum to its
\* total_units and to at most the maximum units per term, and a course whose
\* own units exceed the maximum is never assigned.
GraphUnitsWithinMax ==
    GraphReturned =>
        /\ \A k \in 1..Len(solution.quarters) :
               LET term == solution.quarters[k]
               IN  /\ term.total_units =
                          SumSeq([i \in 1..Len(term.courses) |->
                                     term.courses[i].units])
                   /\ term.total_units <= ConfiguredMaxUnits
        /\ \A i \in 1..Len(courses) :
               InputCourse(courses[i].course_id).units > ConfiguredMaxUnits =>
                   courses[i].course_id \notin PlacedIds

\* a course too large for any term is left out while another is placed
GraphOversizedCourseLeftOut ==
    /\ GraphReturned
    /\ \E i \in 1..Len(courses) : courses[i].units > ConfiguredMaxUnits
    /\ PlacedIds \cap InputIds # {}

\* C10: in every solution returned with feasible=true by either strategy,
\* each course is in a term whose season, the first word of the term's
\* label, is one of the course's offered seasons.
PlacedInOfferedSeason ==
    (returned /\ solution.feasible) =>
        \A pl \in Placements :
            PlacedAt(pl).id \in InputIds =>
                InSeq(SeasonOfLabel[solution.quarters[pl[1]].quarter],
                      InputCourse(PlacedAt(pl).id).offered_quarters)

\* a returned solution with a Fall term and a Winter term
TwoSeasonsPlaced ==
    /\ returned
    /\ solution.feasible
    /\ Len(solution.quarters) = 2
    /\ SeasonOfLabel[solution.quarters[1].quarter] = "Fall"
    /\ SeasonOfLabel[solution.quarters[2].quarter] = "Winter"
    /\ PlacedIds = InputIds

(***************************************************************************)
(* The term budget of the constraint configuration.                        *)
(***************************************************************************)
\* the index of the term a label names, read off the label itself
IndexOfLabel ==
    [label \in {w \o " " \o ToString(y) :
                   w \in {"Fall", "Winter", "Spring"}, y \in 2024..2028} |->
        CHOOSE i \in 0..14 :
            label = <<"Fall", "Winter", "Spring">>[(i % 3) + 1] \o " "
                        \o ToString(2024 + (i \div 3))]

\* the call was given a term budget
TermBudgetGiven == "max_quarters" \in DOMAIN constraints

\* C18: GraphBasedScheduler walks only the terms 0..maxTerms-1 of the
\* supplied constraint configuration: no course is assigned to a term whose
\* index is maxTerms or more.
GraphWithinTermBudget ==
    (GraphReturned /\ TermBudgetGiven) =>
        \A k \in 1..Len(solution.quarters) :
            IndexOfLabel[solution.quarters[k].quarter] < constraints.max_quarters

(***************************************************************************)
(* The term labels of the three strategies.                                *)
(***************************************************************************)
\* a variant that counts four terms to a year
Genetic_get_quarter_name_year_of_four(quarter_idx) ==
    LET year == BaseYear + (quarter_idx \div 4)
        quarter == quarters[(quarter_idx % 3) + 1]
    IN  FormatLabel(quarter, year)

\* GeneticScheduler._get_quarter_name
Genetic_get_quarter_name(quarter_idx) ==
    LET year == BaseYear + (quarter_idx \div 3)
        quarter == quarters[(quarter_idx % 3) + 1]
    IN  FormatLabel(quarter, year)

(***************************************************************************)
(* calculate_schedule_similarity.  A float that is the quotient of two     *)
(* integers is kept as the fraction in lowest terms; float division is     *)
(* correctly rounded, so equal fractions are equal floats.                 *)
(***************************************************************************)
RECURSIVE GCD(_, _)
GCD(a, b) == IF b = 0 THEN a ELSE GCD(b, a % b)

\* numerator / denominator, denominator > 0
Fraction(numerator, denominator) ==
    LET g == GCD(IF numerator < 0 THEN -numerator ELSE numerator, denominator)
    IN  [num |-> numerator \div g, den |-> denominator \div g]

\* 0.0
ZeroFraction == Fraction(0, 1)

\* a < b on floats
FractionLess(a, b) == a.num * b.den < b.num * a.den

\* 1 - x
OneMinus(x) == Fraction(x.den - x.num, x.den)

\* the set of course.get('id') over quarter.get('courses', []) of a schedule
ScheduleCourseIds(schedule) ==
    UNION {{schedule[k].courses[i].id : i \in 1..Len(schedule[k].courses)} :
              k \in 1..Len(schedule)}

\* a variant that divides by the size of the first schedule's id set
calculate_schedule_similarity_over_first(schedule1, schedule2) ==
    IF schedule1 = <<>> \/ schedule2 = <<>>
    THEN ZeroFraction
    ELSE LET courses1 == ScheduleCourseIds(schedule1)
             courses2 == ScheduleCourseIds(schedule2)
             intersection == Cardinality(courses1 \cap courses2)
             union == Cardinality(courses1)
         IN  IF union > 0 THEN Fraction(intersection, union) ELSE ZeroFraction

calculate_schedule_similarity(schedule1, schedule2) ==
    IF schedule1 = <<>> \/ schedule2 = <<>>
    THEN ZeroFraction
    ELSE LET courses1 == ScheduleCourseIds(schedule1)
             courses2 == ScheduleCourseIds(schedule2)
             intersection == Cardinality(courses1 \cap courses2)
             union == Cardinality(courses1 \cup courses2)
         IN  IF union > 0 THEN Fraction(intersection, union) ELSE ZeroFraction

(***************************************************************************)
(* optimize_schedule_diversity.  The lists selected and remaining hold     *)
(* the schedule objects of the argument; the model holds each object as    *)
(* its position in the argument, so that two equal schedules at different  *)
(* positions stay different objects.                                       *)
(***************************************************************************)
\* float('inf') and the initial best_min_distance of -1
Infinity == [num |-> 1, den |-> 0]
MinusOne == Fraction(-1, 1)

\* the inner loop over selected: the least distance of the candidate
RECURSIVE MinDistance(_, _, _, _, _)
MinDistance(schedules, candidate, selected, i, min_distance) ==
    IF i > Len(selected)
    THEN min_distance
    ELSE LET similarity ==
                 calculate_schedule_similarity(schedules[candidate],
                                               schedules[selected[i]])
             distance == OneMinus(similarity)
         IN  MinDistance(schedules, candidate, selected, i + 1,
                         IF FractionLess(distance, min_distance)
                         THEN distance ELSE min_distance)

\* the loop over remaining: best_schedule (0 is None) as an index of remaining
RECURSIVE ScanCandidates(_, _, _, _, _, _)
ScanCandidates(schedules, selected, remaining, i, best_schedule, best_min_distance) ==
    IF i > Len(remaining)
    THEN best_schedule
    ELSE LET min_distance ==
                 MinDistance(schedules, remaining[i], selected, 1, Infinity)
         IN  IF FractionLess(best_min_distance, min_distance)
             THEN ScanCandidates(schedules, selected, remaining, i + 1,
                                 i, min_distance)
             ELSE ScanCandidates(schedules, selected, remaining, i + 1,
                                 best_schedule, best_min_distance)

\* a variant of remaining.remove that removes nothing
RemoveEqual_nothing(schedules, remaining, best_schedule) == remaining

\* remaining.remove(best_schedule): drops the first element equal to it
RemoveEqual(schedules, remaining, best_schedule) ==
    LET first == CHOOSE r \in 1..Len(remaining) :
                     /\ schedules[remaining[r]] = schedules[best_schedule]
                     /\ \A q \in 1..(r - 1) :
                            schedules[remaining[q]] # schedules[best_schedule]
    IN  [r \in 1..(Len(remaining) - 1) |->
            IF r < first THEN remaining[r] ELSE remaining[r + 1]]

\* The while loop.  'if best_schedule:' is false for None and for an empty
\* schedule; nothing changes then and the loop runs again on the same lists,
\* for ever.
RECURSIVE SelectDiverse(_, _, _, _)
SelectDiverse(schedules, target_count, selected, remaining) ==
    IF ~(Len(selected) < target_count /\ remaining # <<>>)
    THEN [status |-> "returned", selected |-> selected]
    ELSE LET best == ScanCandidates(schedules, selected, remaining, 1,
                                    0, MinusOne)
         IN  IF best = 0 \/ schedules[remaining[best]] = <<>>
             THEN [status |-> "hangs", selected |-> selected]
             ELSE SelectDiverse(schedules, target_count,
                                Append(selected, remaining[best]),
                                RemoveEqual(schedules, remaining,
                                            remaining[best]))

\* the positions, in the argument, of the schedules of the returned list
optimize_schedule_diversity(schedules, target_count) ==
    IF Len(schedules) <= target_count
    THEN [status |-> "returned",
          selected |-> [i \in 1..Len(schedules) |-> i]]
    ELSE SelectDiverse(schedules, target_count, <<1>>,
                       [i \in 1..(Len(schedules) - 1) |-> i + 1])

(***************************************************************************)
(* The functions applied once to arguments drawn from small sets.          *)
(***************************************************************************)
\* largest term index a label is asked for
MaxQuarterIndex == 14
\* longest candidate list and largest target count of a diversity selection
MaxCandidates == 4
MaxTargetCount == 3

\* the course lists of the terms of the schedules compared
TermCourseChoices ==
    {<<>>, <<"A">>, <<"B">>, <<"C">>, <<"A", "B">>, <<"B", "C">>}

\* the schedule whose k-th term holds the courses with the ids ids[k]
ScheduleOf(ids) ==
    [k \in 1..Len(ids) |->
        [quarter |-> Genetic_get_quarter_name(k - 1),
         courses |-> [i \in 1..Len(ids[k]) |->
                         [id |-> ids[k][i], units |-> 4, difficulty |-> 3]],
         total_units |-> 4 * Len(ids[k])]]

ScheduleChoices ==
    {ScheduleOf(ids) : ids \in UNION {[1..n -> TermCourseChoices] : n \in 0..2}}

\* the candidates of a diversity selection: the empty schedule and
\* schedules of one term
CandidateChoices ==
    {ScheduleOf(ids) :
        ids \in {<<>>, << <<"A">> >>, << <<"B">> >>, << <<"A", "B">> >>,
                 << <<"B", "C">> >>}}

CandidateLists == UNION {[1..n -> CandidateChoices] : n \in 0..MaxCandidates}

\* no scheduler object: the functions of the module
ModuleLevel == "algorithms"

InitFunctions == Constructed(ModuleLevel)

\* the label of two term indices, by each strategy
GetQuarterNames(i, j) ==
    /\ fn = "none"
    /\ fn' = "_get_quarter_name"
    /\ fn_in' = <<i, j>>
    /\ fn_out' = [genetic |-> <<Genetic_get_quarter_name(i),
                                Genetic_get_quarter_name(j)>>,
                  csp |-> <<CSP_get_quarter_name(i), CSP_get_quarter_name(j)>>,
                  graph |-> <<Graph_get_quarter_name(i),
                              Graph_get_quarter_name(j)>>]
    /\ UNCHANGED <<cls, course_graph, course_data, variables, domains, calls,
                   returned, courses, constraints, max_quarters, solution,
                   fault, genetic_fields, genetic_locals>>

\* the similarity of two schedules, in both orders
CalculateScheduleSimilarity(schedule1, schedule2) ==
    /\ fn = "none"
    /\ fn' = "calculate_schedule_similarity"
    /\ fn_in' = <<schedule1, schedule2>>
    /\ fn_out' = <<calculate_schedule_similarity(schedule1, schedule2),
                   calculate_schedule_similarity(schedule2, schedule1)>>
    /\ UNCHANGED <<cls, course_graph, course_data, variables, domains, calls,
                   returned, courses, constraints, max_quarters, solution,
                   fault, genetic_fields, genetic_locals>>

OptimizeScheduleDiversity(schedules, target_count) ==
    /\ fn = "none"
    /\ fn' = "optimize_schedule_diversity"
    /\ fn_in' = <<schedules, target_count>>
    /\ fn_out' = optimize_schedule_diversity(schedules, target_count)
    /\ UNCHANGED <<cls, course_graph, course_data, variables, domains, calls,
                   returned, courses, constraints, max_quarters, solution,
                   fault, genetic_fields, genetic_locals>>

QuarterNameCall ==
    \E i, j \in 0..MaxQuarterIndex : GetQuarterNames(i, j)

SimilarityCall ==
    \E schedule1, schedule2 \in ScheduleChoices :
        CalculateScheduleSimilarity(schedule1, schedule2)

DiversityCall ==
    \E schedules \in CandidateLists, target_count \in 0..MaxTargetCount :
        OptimizeScheduleDiversity(schedules, target_count)

NextFunctions == QuarterNameCall \/ SimilarityCall \/ DiversityCall

SpecFunctions == InitFunctions /\ [][NextFunctions]_vars

(***************************************************************************)
(* Properties of the module-level functions and of the term labels.        *)
(***************************************************************************)
DiversityReturned ==
    /\ fn = "optimize_schedule_diversity"
    /\ fn_out.status = "returned"

\* C13: for a non-empty candidate list and k >= 1 on which
\* optimize_schedule_diversity returns, the result contains candidates[0],
\* has exactly min(k, len(candidates)) elements, and holds no candidate
\* (no position of the argument) more than once.
DiversitySelectsDistinct ==
    (DiversityReturned /\ fn_in[1] # <<>> /\ fn_in[2] >= 1) =>
        LET selected == fn_out.selected
            n == Len(fn_in[1])
            k == fn_in[2]
        IN  /\ \E i \in 1..Len(selected) : selected[i] = 1
            /\ Len(selected) = IF k < n THEN k ELSE n
            /\ \A i, j \in 1..Len(selected) :
                   selected[i] = selected[j] => i = j

\* three of four equal candidates were selected
DiversityAmongEqual ==
    /\ DiversityReturned
    /\ Len(fn_in[1]) = 4
    /\ \A i \in 1..4 : fn_in[1][i] = fn_in[1][1]
    /\ fn_in[2] = 3
    /\ Len(fn_out.selected) = 3

\* the Jaccard index of two sets of ids, as a pair <<numerator, denominator>>
Jaccard(A, B) == <<Cardinality(A \cap B), Cardinality(A \cup B)>>

\* the float is the quotient of the pair
EqualsQuotient(x, pair) == x.num * pair[2] = pair[1] * x.den

\* C14: calculate_schedule_similarity is symmetric, is 1 for sim(a,a) when
\* a's course-id set is not empty, is 0 when the two course-id sets are
\* disjoint or either schedule is empty, and otherwise is the size of the
\* intersection over the size of the union of the course-id sets.
SimilarityIsJaccard ==
    fn = "calculate_schedule_similarity" =>
        LET a == fn_in[1]
            b == fn_in[2]
            A == ScheduleCourseIds(a)
            B == ScheduleCourseIds(b)
        IN  /\ fn_out[1] = fn_out[2]
            /\ (a = b /\ A # {}) => EqualsQuotient(fn_out[1], <<1, 1>>)
            /\ (A \cap B = {} \/ a = <<>> \/ b = <<>>) =>
                   EqualsQuotient(fn_out[1], <<0, 1>>)
            /\ ~(A \cap B = {} \/ a = <<>> \/ b = <<>>) =>
                   EqualsQuotient(fn_out[1], Jaccard(A, B))

\* two schedules sharing one of three course ids
SimilarityOneThird ==
    /\ fn = "calculate_schedule_similarity"
    /\ ScheduleCourseIds(fn_in[1]) = {"A", "B"}
    /\ ScheduleCourseIds(fn_in[2]) = {"B", "C"}
    /\ fn_out[1] = [num |-> 1, den |-> 3]

\* the <<year, season rank>> a label names, read off the label itself
YearAndRank ==
    [label \in {w \o " " \o ToString(y) :
                   w \in {"Fall", "Winter", "Spring"},
                   y \in 2024..(2024 + MaxQuarterIndex)} |->
        CHOOSE yr \in (2024..(2024 + MaxQuarterIndex)) \X (0..2) :
            label = <<"Fall", "Winter", "Spring">>[yr[2] + 1] \o " "
                        \o ToString(yr[1])]

\* lexicographic order on <<year, season rank>>
Earlier(a, b) == a[1] < b[1] \/ (a[1] = b[1] /\ a[2] < b[2])

\* C15: for a term index i the label functions of the three strategies
\* return the same "<Season> <Year>" with Season = [Fall, Winter, Spring]
\* [i mod 3] and Year = 2024 + i div 3; the label increases strictly in
\* (year, season rank) with i, so distinct indices give distinct labels.
QuarterNamesAgreeAndIncrease ==
    fn = "_get_quarter_name" =>
        LET i == fn_in[1]
            j == fn_in[2]
            names == fn_out.genetic
        IN  /\ fn_out.csp = names
            /\ fn_out.graph = names
            /\ YearAndRank[names[1]] = <<2024 + (i \div 3), i % 3>>
            /\ YearAndRank[names[2]] = <<2024 + (j \div 3), j % 3>>
            /\ i < j => Earlier(YearAndRank[names[1]], YearAndRank[names[2]])
            /\ i # j => names[1] # names[2]

\* the labels of the last term of a year and of the first of the next
QuarterNamesAcrossYears ==
    /\ fn = "_get_quarter_name"
    /\ fn_in = <<2, 3>>
    /\ fn_out.genetic = <<"Spring 2024", "Fall 2025">>
    /\ fn_out.csp = <<"Spring 2024", "Fall 2025">>
    /\ fn_out.graph = <<"Spring 2024", "Fall 2025">>

(***************************************************************************)
(* GeneticScheduler.  random.shuffle, random.sample, random.randint and    *)
(* random.random are choices: an operator that uses one of them is the set *)
(* of the results it can give.                                             *)
(***************************************************************************)
\* elite_size = max(2, population_size // 10)
MinEliteSize == 2
EliteDivisor == 10
EliteSize(size) ==
    IF size \div EliteDivisor > MinEliteSize
    THEN size \div EliteDivisor ELSE MinEliteSize

\* the orders random.shuffle can leave a list in
Shuffles(list) ==
    {[i \in 1..Len(list) |-> list[f[i]]] :
        f \in {g \in [1..Len(list) -> 1..Len(list)] :
                  \A i, j \in 1..Len(list) : g[i] = g[j] => i = j}}

\* len(quarter_courses) >= 4: break
QuarterFull == 4

\* The for loop over remaining_courses.copy() of one term of
\* _create_random_schedule.  completed_courses grows as courses are placed.
RECURSIVE Genetic_scan_quarter(_, _, _, _)
Genetic_scan_quarter(season, max_units, todo, st) ==
    IF todo = <<>> THEN st
    ELSE LET course == Head(todo)
         IN  IF ~PrereqsCompleted(course, st.completed_courses)
             THEN Genetic_scan_quarter(season, max_units, Tail(todo), st)
             ELSE IF ~OfferedIn(course, season)
             THEN Genetic_scan_quarter(season, max_units, Tail(todo), st)
             ELSE IF ExceedsMaxUnits(st.quarter_units, course, max_units)
             THEN Genetic_scan_quarter(season, max_units, Tail(todo), st)
             ELSE LET st1 ==
                        [quarter_courses |->
                             Append(st.quarter_courses, CourseEntry(course)),
                         quarter_units |-> st.quarter_units + course.units,
                         remaining_courses |->
                             ListRemove(st.remaining_courses, course),
                         completed_courses |->
                             st.completed_courses \cup {course.course_id}]
                  IN  IF Len(st1.quarter_courses) >= QuarterFull
                      THEN st1
                      ELSE Genetic_scan_quarter(season, max_units,
                                                Tail(todo), st1)

\* one round of the loop over quarter_idx, from the loop state w
\* (schedule, remaining_courses, completed_courses): the states it can leave
Genetic_random_quarter(w, cons, quarter_idx) ==
    IF w.remaining_courses = <<>>
    THEN {w}
    ELSE LET quarter_name == Genetic_get_quarter_name(quarter_idx)
             max_units ==
                 ConstraintGet(cons, "max_units_per_quarter", DefaultMaxUnits)
         IN  {LET st == Genetic_scan_quarter(
                            SplitFirst(quarter_name), max_units, shuffled,
                            [quarter_courses |-> <<>>,
                             quarter_units |-> 0,
                             remaining_courses |-> shuffled,
                             completed_courses |-> w.completed_courses])
              IN  [schedule |->
                       IF st.quarter_courses # <<>>
                       THEN Append(w.schedule,
                                   [quarter |-> quarter_name,
                                    courses |-> st.quarter_courses,
                                    total_units |-> st.quarter_units])
                       ELSE w.schedule,
                   remaining_courses |-> st.remaining_courses,
                   completed_courses |-> st.completed_courses] :
              shuffled \in Shuffles(w.remaining_courses)}

RECURSIVE Genetic_random_quarters(_, _, _, _)
Genetic_random_quarters(ws, cons, quarter_idx, mq) ==
    IF quarter_idx >= mq
    THEN ws
    ELSE Genetic_random_quarters(
             UNION {Genetic_random_quarter(w, cons, quarter_idx) : w \in ws},
             cons, quarter_idx + 1, mq)

\* the schedules _create_random_schedule can return
Genetic_create_random_schedule(cs, cons, mq) ==
    {w.schedule :
        w \in Genetic_random_quarters(
                  {[schedule |-> <<>>, remaining_courses |-> cs,
                    completed_courses |-> {}]},
                  cons, 0, mq)}

(***************************************************************************)
(* The term dicts of the individuals are objects: heap[o] is the dict with *)
(* identity o, and an individual is the list of the identities of its      *)
(* terms.  list.copy() and list slices copy the list, not the dicts.       *)
(***************************************************************************)
\* the terms an individual holds now
Deref(individual, h) == [k \in 1..Len(individual) |-> h[individual[k]]]

\* a population of new term dicts, one list per schedule
RECURSIVE Allocate(_, _, _)
Allocate(schedules, h, pop) ==
    IF schedules = <<>>
    THEN [heap |-> h, population |-> pop]
    ELSE LET schedule == Head(schedules)
         IN  Allocate(Tail(schedules), h \o schedule,
                      Append(pop, [k \in 1..Len(schedule) |-> Len(h) + k]))

\* _initialize_population: the populations it can return
Genetic_initialize_population(size, cs, cons) ==
    LET mq == ConstraintGet(cons, "max_quarters", DefaultMaxQuarters)
        choices == Genetic_create_random_schedule(cs, cons, mq)
    IN  {Allocate(schedules, <<>>, <<>>) :
            schedules \in [1..size -> choices]}

(***************************************************************************)
(* _evaluate_fitness.  The fitness is kept in thousandths.  The standard   *)
(* deviation is kept in hundredths, rounded down; it is exact for an       *)
(* individual of one or two terms and for equal unit totals.               *)
(***************************************************************************)
RECURSIVE ISqrtBetween(_, _, _)
ISqrtBetween(n, low, high) ==
    IF low = high THEN low
    ELSE LET mid == (low + high + 1) \div 2
         IN  IF mid * mid <= n
             THEN ISqrtBetween(n, mid, high)
             ELSE ISqrtBetween(n, low, mid - 1)

\* np.std of a non-empty list of integers, in hundredths
StdHundredths(xs) ==
    LET n == Len(xs)
        total == SumSeq(xs)
        squares == SumSeq([i \in 1..n |-> xs[i] * xs[i]])
    IN  ISqrtBetween((n * squares - total * total) * 10000, 0, 40000) \div n

AtLeastZero(x) == IF x > 0 THEN x ELSE 0

\* max(0, 1.0 - unit_std / 10.0) * 0.3
UnitBalanceScore(terms) ==
    IF terms = <<>> THEN 0
    ELSE AtLeastZero(
             300 - (3 * StdHundredths([k \in 1..Len(terms) |->
                                          terms[k].total_units])) \div 10)

\* the terms that have courses, in order
RECURSIVE WithCourses(_)
WithCourses(terms) ==
    IF terms = <<>> THEN <<>>
    ELSE IF Head(terms).courses # <<>>
    THEN <<Head(terms)>> \o WithCourses(Tail(terms))
    ELSE WithCourses(Tail(terms))

DifficultySum(term) ==
    SumSeq([i \in 1..Len(term.courses) |-> term.courses[i].difficulty])

\* difficulty_scores[i] >= difficulty_scores[i-1] on the means
MeanNotLower(term, previous) ==
    DifficultySum(term) * Len(previous.courses) >=
        DifficultySum(previous) * Len(term.courses)

\* min(progression_score, 0.3), 0.1 for each term not easier than the last
ProgressionScore(terms) ==
    LET scored == WithCourses(terms)
        steps == Cardinality({i \in 2..Len(scored) :
                                 MeanNotLower(scored[i], scored[i - 1])})
    IN  IF Len(scored) > 1
        THEN (IF 100 * steps < 300 THEN 100 * steps ELSE 300)
        ELSE 0

DefaultTargetQuarters == 8

\* max(0, 1.0 - abs(total_quarters - target_quarters) / target_quarters) * 0.2
\* for target_quarters > 0
TimelineScore(total_quarters, target_quarters) ==
    LET distance == IF total_quarters > target_quarters
                    THEN total_quarters - target_quarters
                    ELSE target_quarters - total_quarters
    IN  AtLeastZero((200 * (target_quarters - distance)) \div target_quarters)

\* the penalty of one term
UnitPenalty(term, max_units, min_units) ==
    IF term.total_units > max_units
    THEN (term.total_units - max_units) * 100
    ELSE IF term.total_units < min_units /\ term.courses # <<>>
    THEN (min_units - term.total_units) * 50
    ELSE 0

ZeroDivisionError == "division by zero"

\* _evaluate_fitness of the terms of an individual: the score, or the
\* exception raised
Genetic_evaluate_fitness(terms, cons, prefs) ==
    LET target_quarters ==
            ConstraintGet(prefs, "target_quarters", DefaultTargetQuarters)
        max_units ==
            ConstraintGet(cons, "max_units_per_quarter", DefaultMaxUnits)
        min_units ==
            ConstraintGet(cons, "min_units_per_quarter", DefaultMinUnits)
    IN  IF target_quarters = 0
        THEN [raised |-> <<ZeroDivisionError>>, score |-> 0]
        ELSE [raised |-> <<>>,
              score |->
                  UnitBalanceScore(terms) + ProgressionScore(terms)
                  + TimelineScore(Len(terms), target_quarters)
                  - SumSeq([k \in 1..Len(terms) |->
                               UnitPenalty(terms[k], max_units, min_units)])]

(***************************************************************************)
(* _evolve_population and its operators.                                   *)
(***************************************************************************)
\* sorted(zip(population, fitness_scores), key=..., reverse=True): the
\* positions of the population by decreasing fitness, equal scores in
\* their order in the population (the sort is stable)
SortedPositions(scores) ==
    LET before(i, j) == scores[i] > scores[j] \/ (scores[i] = scores[j] /\ i < j)
    IN  [r \in 1..Len(scores) |->
            CHOOSE i \in 1..Len(scores) :
                Cardinality({j \in 1..Len(scores) : before(j, i)}) = r - 1]

TournamentSize == 3

\* _tournament_selection: the positions that can win.  random.sample draws
\* min(3, len) different entries in some order and max returns the first of
\* the fittest of them.
Genetic_tournament_selection(scores) ==
    LET size == IF TournamentSize < Len(scores)
                THEN TournamentSize ELSE Len(scores)
    IN  {i \in 1..Len(scores) :
            \E tournament \in SUBSET (1..Len(scores)) :
                /\ Cardinality(tournament) = size
                /\ i \in tournament
                /\ \A j \in tournament : scores[j] <= scores[i]}

EmptyRangeError == "empty range for randrange() (1, 1, 0)"

\* a[:point] + b[point:]
Splice(a, b, point) ==
    SubSeq(a, 1, point) \o SubSeq(b, point + 1, Len(b))

\* _crossover: the pairs of children it can return, or the exception of
\* random.randint(1, 0) when the shorter parent has one term
Genetic_crossover(parent1, parent2) ==
    IF parent1 = <<>> \/ parent2 = <<>>
    THEN [raised |-> <<>>, children |-> {<<parent1, parent2>>}]
    ELSE LET shorter == IF Len(parent1) < Len(parent2)
                        THEN Len(parent1) ELSE Len(parent2)
         IN  IF shorter - 1 < 1
             THEN [raised |-> <<EmptyRangeError>>, children |-> {}]
             ELSE [raised |-> <<>>,
                   children |->
                       {<<Splice(parent1, parent2, crossover_point),
                          Splice(parent2, parent1, crossover_point)>> :
                           crossover_point \in 1..(shorter - 1)}]

\* a swap that updates the unit total of the first term only
SwapCourses_one_total(h, o1, o2, c1, c2) ==
    LET course1 == h[o1].courses[c1]
        course2 == h[o2].courses[c2]
        h1 == [h EXCEPT ![o1].courses[c1] = course2]
        h2 == [h1 EXCEPT ![o2].courses[c2] = course1]
    IN  [h2 EXCEPT ![o1].total_units = @ + course2.units - course1.units]

\* the swap of _mutate: the four writes into the two term dicts, in order
SwapCourses(h, o1, o2, c1, c2) ==
    LET course1 == h[o1].courses[c1]
        course2 == h[o2].courses[c2]
        h1 == [h EXCEPT ![o1].courses[c1] = course2]
        h2 == [h1 EXCEPT ![o2].courses[c2] = course1]
        h3 == [h2 EXCEPT ![o1].total_units = @ + course2.units - course1.units]
    IN  [h3 EXCEPT ![o2].total_units = @ + course1.units - course2.units]

\* _mutate: the heaps it can leave.  The list it returns holds the same
\* dicts as its argument.
Genetic_mutate(individual, h) ==
    IF individual = <<>> \/ Len(individual) < 2
    THEN {h}
    ELSE UNION {
           IF h[individual[q1]].courses # <<>>
              /\ h[individual[q2]].courses # <<>> /\ q1 # q2
           THEN {SwapCourses(h, individual[q1], individual[q2], c1, c2) :
                    c1 \in 1..Len(h[individual[q1]].courses),
                    c2 \in 1..Len(h[individual[q2]].courses)}
           ELSE {h} :
           q1 \in 1..Len(individual), q2 \in 1..Len(individual)}

\* random.random() < self.mutation_rate, the rate in hundredths
MutationChoices(rate) ==
    IF rate <= 0 THEN {FALSE} ELSE IF rate >= 100 THEN {TRUE} ELSE BOOLEAN

\* child = self._mutate(child) if the draw says so
MaybeMutate(mutate, individual, h) ==
    IF mutate THEN Genetic_mutate(individual, h) ELSE {h}

ConvergenceThreshold == 10
ConvergenceAfter == 20

MaxOf(scores) == CHOOSE x \in Range(scores) : \A y \in Range(scores) : y <= x
MinOf(scores) == CHOOSE x \in Range(scores) : \A y \in Range(scores) : y >= x

\* _has_converged
Genetic_has_converged(scores) ==
    IF Len(scores) < 2 THEN FALSE
    ELSE MaxOf(scores) - MinOf(scores) < ConvergenceThreshold

(***************************************************************************)
(* _convert_to_solution.                                                   *)
(***************************************************************************)
NoValidScheduleViolation == "No valid schedule found"

ExceedsMaxViolation(term) ==
    "Quarter " \o term.quarter \o " exceeds max units: "
        \o ToString(term.total_units)

BelowMinViolation(term) ==
    "Quarter " \o term.quarter \o " below min units: "
        \o ToString(term.total_units)

\* a check in which a term below the minimum makes the solution infeasible
TermCheck_min_is_hard(term, max_units, min_units) ==
    IF term.total_units > max_units
    THEN [violations |-> <<ExceedsMaxViolation(term)>>, feasible |-> FALSE]
    ELSE IF term.total_units < min_units /\ term.courses # <<>>
    THEN [violations |-> <<BelowMinViolation(term)>>, feasible |-> FALSE]
    ELSE [violations |-> <<>>, feasible |-> TRUE]

\* the body of the loop over the terms: what the term adds to violations,
\* and whether it leaves feasible alone
TermCheck(term, max_units, min_units) ==
    IF term.total_units > max_units
    THEN [violations |-> <<ExceedsMaxViolation(term)>>, feasible |-> FALSE]
    ELSE IF term.total_units < min_units /\ term.courses # <<>>
    THEN [violations |-> <<BelowMinViolation(term)>>, feasible |-> TRUE]
    ELSE [violations |-> <<>>, feasible |-> TRUE]

RECURSIVE CheckTerms(_, _, _, _, _)
CheckTerms(terms, max_units, min_units, violations, feasible) ==
    IF terms = <<>>
    THEN [violations |-> violations, feasible |-> feasible]
    ELSE LET c == TermCheck(Head(terms), max_units, min_units)
         IN  CheckTerms(Tail(terms), max_units, min_units,
                        violations \o c.violations, feasible /\ c.feasible)

\* best_individual is the list of terms the best individual holds now
Genetic_convert_to_solution(best_individual, score, cons) ==
    IF best_individual = <<>>
    THEN SchedulingSolution(<<>>, ZeroScore, FALSE, <<NoValidScheduleViolation>>)
    ELSE LET max_units ==
                 ConstraintGet(cons, "max_units_per_quarter", DefaultMaxUnits)
             min_units ==
                 ConstraintGet(cons, "min_units_per_quarter", DefaultMinUnits)
             c == CheckTerms(best_individual, max_units, min_units, <<>>, TRUE)
         IN  SchedulingSolution(best_individual, score, c.feasible, c.violations)

(***************************************************************************)
(* GeneticScheduler.optimize_schedule, step by step: the population is     *)
(* initialized, then each generation is evaluated, its elite is kept, and  *)
(* pairs of children are added until the new population is full.           *)
(***************************************************************************)
GeneticCls == "GeneticScheduler"

\* -float('inf'): below every fitness
NegativeInfinity == -1000000
IndexError == "list index out of range"

\* __init__(population_size, generations, mutation_rate)
GeneticConstructed(size, gens, rate) ==
    /\ cls = GeneticCls
    /\ course_graph = EmptyGraph
    /\ course_data = EmptyDict
    /\ variables = <<>>
    /\ domains = EmptyDict
    /\ calls = 0
    /\ returned = FALSE
    /\ courses = <<>>
    /\ constraints = EmptyDict
    /\ max_quarters = DefaultMaxQuarters
    /\ solution = NoSolution
    /\ fault = NoFault
    /\ population_size = size
    /\ generations = gens
    /\ mutation_rate = rate
    /\ elite_size = EliteSize(size)
    /\ preferences = EmptyDict
    /\ pc = "idle"
    /\ heap = <<>>
    /\ population = <<>>
    /\ fitness_scores = <<>>
    /\ best_solution = <<>>
    /\ best_score = 0
    /\ generation = 0
    /\ new_population = <<>>
    /\ evaluated_scores = <<>>
    /\ best_evaluated = <<>>
    /\ elites_evaluated = <<>>
    /\ FunctionIdle

\* an exception reaches the except clause of optimize_schedule
GeneticRaise(e) ==
    /\ solution' = ExceptionSolution(e)
    /\ fault' = <<e>>
    /\ returned' = TRUE
    /\ pc' = "done"

\* lines 53-56
OptimizeSchedule(cs, cons, prefs) ==
    /\ cls = GeneticCls
    /\ pc = "idle"
    /\ \E initial \in Genetic_initialize_population(population_size, cs, cons) :
           /\ heap' = initial.heap
           /\ population' = initial.population
    /\ courses' = cs
    /\ constraints' = cons
    /\ preferences' = prefs
    /\ best_solution' = <<>>
    /\ best_score' = NegativeInfinity
    /\ generation' = 0
    /\ calls' = calls + 1
    /\ pc' = "evaluate"
    /\ UNCHANGED <<cls, course_graph, course_data, variables, domains,
                   returned, max_quarters, solution, fault, genetic_fields,
                   fitness_scores, new_population, evaluated_scores,
                   best_evaluated, elites_evaluated, function_vars>>

\* the loop over the individuals of lines 60-67; st holds fitness_scores,
\* best_score, best_solution, and best_evaluated
RECURSIVE EvaluateAll(_, _, _, _, _)
EvaluateAll(individuals, h, cons, prefs, st) ==
    IF individuals = <<>> \/ st.raised # <<>>
    THEN st
    ELSE LET individual == Head(individuals)
             f == Genetic_evaluate_fitness(Deref(individual, h), cons, prefs)
             better == f.score > st.best_score
         IN  EvaluateAll(Tail(individuals), h, cons, prefs,
                 IF f.raised # <<>>
                 THEN [st EXCEPT !.raised = f.raised]
                 ELSE [raised |-> <<>>,
                       fitness_scores |-> Append(st.fitness_scores, f.score),
                       best_score |-> IF better THEN f.score ELSE st.best_score,
                       best_solution |->
                           IF better THEN individual ELSE st.best_solution,
                       best_evaluated |->
                           IF better THEN Deref(individual, h)
                           ELSE st.best_evaluated])

\* what no step of a running optimize_schedule changes
genetic_frame ==
    <<cls, course_graph, course_data, variables, domains, calls, courses,
      constraints, max_quarters, genetic_fields, preferences, function_vars>>

\* lines 58-67: the fitness of every individual of this generation
EvaluatePopulation ==
    /\ pc = "evaluate"
    /\ generation < generations
    /\ LET st == EvaluateAll(population, heap, constraints, preferences,
                     [raised |-> <<>>, fitness_scores |-> <<>>,
                      best_score |-> best_score,
                      best_solution |-> best_solution,
                      best_evaluated |-> best_evaluated])
       IN  IF st.raised # <<>>
           THEN /\ GeneticRaise(st.raised[1])
                /\ UNCHANGED <<fitness_scores, best_score, best_solution,
                               best_evaluated, evaluated_scores>>
           ELSE /\ fitness_scores' = st.fitness_scores
                /\ best_score' = st.best_score
                /\ best_solution' = st.best_solution
                /\ best_evaluated' = st.best_evaluated
                /\ evaluated_scores' = evaluated_scores \o st.fitness_scores
                /\ pc' = "elite"
                /\ UNCHANGED <<solution, fault, returned>>
    /\ UNCHANGED <<genetic_frame, heap, population, generation,
                   new_population, elites_evaluated>>

\* lines 193-199: the elite_size fittest start the new population
KeepElite ==
    /\ pc = "elite"
    /\ IF Len(population) < elite_size
       THEN /\ GeneticRaise(IndexError)
            /\ UNCHANGED <<new_population, elites_evaluated>>
       ELSE LET sorted_pop == SortedPositions(fitness_scores)
                elite == [i \in 1..elite_size |-> population[sorted_pop[i]]]
            IN  /\ new_population' = elite
                /\ elites_evaluated' =
                       [i \in 1..elite_size |-> Deref(elite[i], heap)]
                /\ pc' = "offspring"
                /\ UNCHANGED <<solution, fault, returned>>
    /\ UNCHANGED <<genetic_frame, heap, population, fitness_scores,
                   best_score, best_solution, generation,
                   evaluated_scores, best_evaluated>>

\* lines 202-213: one round of the while loop, two children
Reproduce ==
    /\ pc = "offspring"
    /\ Len(new_population) < population_size
    /\ \E parent1, parent2 \in Genetic_tournament_selection(fitness_scores) :
         LET x == Genetic_crossover(population[parent1], population[parent2])
         IN  IF x.raised # <<>>
             THEN /\ GeneticRaise(x.raised[1])
                  /\ UNCHANGED <<heap, new_population>>
             ELSE \E children \in x.children,
                     mutate1, mutate2 \in MutationChoices(mutation_rate) :
                    \E h1 \in MaybeMutate(mutate1, children[1], heap) :
                      \E h2 \in MaybeMutate(mutate2, children[2], h1) :
                        /\ heap' = h2
                        /\ new_population' = new_population \o children
                        /\ UNCHANGED <<pc, solution, fault, returned>>
    /\ UNCHANGED <<genetic_frame, population, fitness_scores, best_score,
                   best_solution, generation, evaluated_scores,
                   best_evaluated, elites_evaluated>>

\* a round that is not counted
EndGeneration_not_counted ==
    /\ pc = "offspring"
    /\ Len(new_population) >= population_size
    /\ population' = SubSeq(new_population, 1, population_size)
    /\ pc' = "evaluate"
    /\ UNCHANGED <<genetic_frame, heap, fitness_scores, best_score,
                   best_solution, new_population, evaluated_scores,
                   best_evaluated, elites_evaluated, solution, fault,
                   returned, generation>>

\* lines 215 and 69-74: the new population replaces the old one
EndGeneration ==
    /\ pc = "offspring"
    /\ Len(new_population) >= population_size
    /\ population' = SubSeq(new_population, 1, population_size)
    /\ IF generation > ConvergenceAfter /\ Genetic_has_converged(fitness_scores)
       THEN pc' = "return" /\ UNCHANGED generation
       ELSE pc' = "evaluate" /\ generation' = generation + 1
    /\ UNCHANGED <<genetic_frame, heap, fitness_scores, best_score,
                   best_solution, new_population, evaluated_scores,
                   best_evaluated, elites_evaluated, solution, fault,
                   returned>>

\* line 76
ReturnSolution ==
    /\ pc = "return" \/ (pc = "evaluate" /\ generation >= generations)
    /\ solution' = Genetic_convert_to_solution(Deref(best_solution, heap),
                                               best_score, constraints)
    /\ returned' = TRUE
    /\ pc' = "done"
    /\ UNCHANGED <<genetic_frame, heap, population, fitness_scores,
                   best_score, best_solution, generation, new_population,
                   evaluated_scores, best_evaluated, elites_evaluated, fault>>

(***************************************************************************)
(* One call on a new scheduler of any of the three classes.                *)
(***************************************************************************)
\* largest population and most generations run on every input
MaxPopulation == 3
MaxGenerations == 2

\* the configuration on which no course can be placed, and the scheduler
\* it is run with: population 10, 5 generations
NoUnits == Constraints(0, 0)
LargePopulation == 10
LargeGenerations == 5

\* mutation_rate = 0.1, in hundredths
DefaultMutationRate == 10

\* a scheduler that never mutates: its children are made by crossover alone
NoMutation == 0

\* <<population_size, generations, mutation_rate>>
GeneticSchedulers ==
    ((1..MaxPopulation) \X (0..MaxGenerations) \X {DefaultMutationRate})
        \cup {<<LargePopulation, LargeGenerations, DefaultMutationRate>>}
        \cup {<<MaxPopulation, MaxGenerations, NoMutation>>}

PreferenceChoices == {EmptyDict, [target_quarters |-> 0]}

\* FallCourseCount courses of 4 units, no prerequisites, offered in Fall:
\* more than one term of any strategy admits
FallCourseCount == 6
FallCourse(n) == SchedulingNode("C" \o ToString(n), 4, 3, <<>>, <<"Fall">>)
FallCourses == [n \in 1..FallCourseCount |-> FallCourse(n)]

\* a horizon of one term
ShortHorizon ==
    [max_units_per_quarter |-> 8, min_units_per_quarter |-> 4,
     max_quarters |-> 1]

\* a minimum that three courses of 4 units do not reach
HighMinimum == Constraints(20, 16)

\* three courses of 8 units, one to a term of 8 units, of which R alone is
\* offered in Winter too: the term index of the second and third term of an
\* individual depends on the order of the shuffle
CrossoverCourses ==
    << SchedulingNode("P", 8, 3, <<>>, <<"Fall">>),
       SchedulingNode("Q", 8, 2, <<>>, <<"Fall">>),
       SchedulingNode("R", 8, 1, <<>>, <<"Fall", "Winter">>) >>

\* the courses a GeneticScheduler is called with: A, and B with or without
\* the prerequisite A
GeneticCatalog ==
    {SchedulingNode("A", UnitsOf["A"], DifficultyOf["A"], <<>>, offered) :
        offered \in OfferedChoices}
    \cup {SchedulingNode("B", UnitsOf["B"], DifficultyOf["B"], prereqs, <<"Fall">>) :
             prereqs \in {<<>>, <<"A">>}}

\* three courses of which two fill a term of 8 units: a swap with the third
\* overloads the term
OverloadCourses ==
    << SchedulingNode("A", UnitsOf["A"], DifficultyOf["A"], <<>>, <<"Fall">>),
       SchedulingNode("A", UnitsOf["A"], DifficultyOf["A"], <<>>, <<"Fall">>),
       SchedulingNode("B", UnitsOf["B"], DifficultyOf["B"], <<>>, <<"Fall">>) >>

GeneticCourseLists ==
    UNION {[1..n -> GeneticCatalog] : n \in 0..MaxCourses}
        \cup {OverloadCourses}

GeneticConstraintChoices ==
    IF population_size > MaxPopulation
    THEN {NoUnits}
    ELSE ConstraintChoices \cup {NoUnits}

\* the inputs <<courses, constraints, preferences>> of the call, by the
\* scheduler that is called: the scheduler that never mutates gets
\* CrossoverCourses, and the scheduler of one individual and no generation
\* gets FallCourses and the horizon of one term too
GeneticInputs ==
    IF mutation_rate = NoMutation
    THEN {<<CrossoverCourses, Constraints(8, 4), EmptyDict>>}
    ELSE (GeneticCourseLists \X GeneticConstraintChoices \X PreferenceChoices)
            \cup (IF population_size = 1 /\ generations = 0
                  THEN ((GeneticCourseLists \cup {FallCourses})
                            \X {ShortHorizon} \X {EmptyDict})
                       \cup {<<FallCourses, EmptyDict, EmptyDict>>}
                  ELSE {})

InitCalls ==
    \/ \E c \in {GraphCls, CspCls} : Constructed(c)
    \/ \E g \in GeneticSchedulers :
           GeneticConstructed(g[1], g[2], g[3])

GraphFirstCall ==
    /\ calls = 0
    /\ \E cs \in CourseLists \cup {FallCourses},
          cons \in ConstraintChoices \cup {HighMinimum} :
            CreateOptimalSchedule(cs, cons)

CspFirstCall ==
    /\ calls = 0
    /\ \E cs \in CourseLists \cup {FallCourses}, cons \in ConstraintChoices,
          mq \in MaxQuartersChoices :
            SolveSchedule(cs, cons, mq)

GeneticCall ==
    \E input \in GeneticInputs :
        OptimizeSchedule(input[1], input[2], input[3])

\* the steps of a running optimize_schedule
GeneticStep ==
    \/ EvaluatePopulation
    \/ KeepElite
    \/ Reproduce
    \/ EndGeneration
    \/ ReturnSolution

NextCalls ==
    \/ GraphFirstCall
    \/ CspFirstCall
    \/ GeneticCall
    \/ EvaluatePopulation
    \/ KeepElite
    \/ Reproduce
    \/ EndGeneration
    \/ ReturnSolution

SpecCalls == InitCalls /\ [][NextCalls]_vars

(***************************************************************************)
(* Properties of the entry points and of GeneticScheduler.                 *)
(***************************************************************************)
GeneticReturned == returned /\ cls = GeneticCls

\* the call returned from line 76, for a best individual with terms
GeneticConverted ==
    /\ GeneticReturned
    /\ fault = NoFault
    /\ solution.quarters # <<>>

\* C11: none of the three entry points propagates a fault: the call returns
\* a SchedulingSolution, and whenever an internal step failed that solution
\* has empty terms, score 0, feasible=false and a non-empty violations list.
FaultsSurfaceInSolution ==
    returned =>
        /\ DOMAIN solution = {"quarters", "total_score", "feasible", "violations"}
        /\ fault # NoFault =>
               /\ solution.quarters = <<>>
               /\ solution.total_score = 0
               /\ solution.feasible = FALSE
               /\ solution.violations # <<>>

\* a GeneticScheduler whose crossover met parents of a single term
CrossoverFaultReturned ==
    /\ GeneticReturned
    /\ fault = <<EmptyRangeError>>
    /\ solution.violations = <<EmptyRangeError>>

\* C16: whenever GeneticScheduler.optimize_schedule, called with courses of
\* different ids, returns a solution with feasible=true, no course id
\* appears more than once across or within its terms, whatever crossovers
\* and mutations were made.
GeneticFeasibleHasNoDuplicate ==
    (GeneticReturned /\ DistinctIds(courses) /\ solution.feasible) =>
        \A p1, p2 \in Placements :
            PlacedAt(p1).id = PlacedAt(p2).id => p1 = p2

TermsOver(limit) ==
    {k \in 1..Len(solution.quarters) :
        solution.quarters[k].total_units > limit}

TermsUnder(limit) ==
    {k \in 1..Len(solution.quarters) :
        /\ solution.quarters[k].total_units < limit
        /\ solution.quarters[k].courses # <<>>}

ConfiguredMinUnits ==
    ConstraintGet(constraints, "min_units_per_quarter", DefaultMinUnits)

\* C17: for a non-empty best individual the returned feasibility and
\* violations come from the per-term unit check only: feasible is false
\* exactly when some term's total exceeds the maximum; a non-empty term
\* below the minimum adds a violation and leaves feasible alone; nothing
\* else adds a violation.
GeneticFeasibleByUnitsOnly ==
    GeneticConverted =>
        /\ solution.feasible <=> TermsOver(ConfiguredMaxUnits) = {}
        /\ Len(solution.violations) =
               Cardinality(TermsOver(ConfiguredMaxUnits)
                               \cup TermsUnder(ConfiguredMinUnits))

\* a returned solution with a term below the minimum, feasible all the same
GeneticBelowMinFeasible ==
    /\ GeneticConverted
    /\ TermsUnder(ConfiguredMinUnits) # {}
    /\ solution.feasible
    /\ solution.violations # <<>>

\* C19: the elite individuals are carried into the next population
\* unchanged: while and after the children of the generation are made,
\* their terms are what they were when evaluated.
EliteUnchanged ==
    (cls = GeneticCls /\ pc = "offspring") =>
        \A i \in 1..elite_size :
            Deref(new_population[i], heap) = elites_evaluated[i]

\* C20: the returned total_score is the largest fitness evaluated in any
\* generation, and the returned terms are those the individual with that
\* fitness had when it was evaluated.
GeneticReturnsBestAsEvaluated ==
    (GeneticReturned /\ fault = NoFault /\ evaluated_scores # <<>>) =>
        /\ solution.quarters # <<>> =>
               /\ solution.total_score = MaxOf(evaluated_scores)
               /\ solution.quarters = best_evaluated
        /\ solution.quarters = <<>> => best_evaluated = <<>>

\* A measure of the work a running optimize_schedule has left: the rounds
\* not yet started, and within a round the steps up to its end.
GeneticRank ==
    IF pc \in {"idle", "done"} THEN 0
    ELSE (generations - generation) * (population_size + 6)
         + (CASE pc = "evaluate" -> population_size + 5
              [] pc = "elite" -> population_size + 4
              [] pc = "offspring" -> population_size + 3 - Len(new_population)
              [] pc = "return" -> 1)

GeneticRunning == cls = GeneticCls /\ pc \notin {"idle", "done"}

\* The running call can take a step: the population is evaluated or the
\* solution returned, the elite is kept or the call fails, and while the
\* children are made either the new population is full or a tournament
\* has a winner to cross.
GeneticCanStep ==
    \/ pc \in {"evaluate", "elite", "return"}
    \/ /\ pc = "offspring"
       /\ \/ Len(new_population) >= population_size
          \/ Genetic_tournament_selection(fitness_scores) # {}

\* C12: optimize_schedule terminates after at most `generations` rounds of
\* evaluate-and-evolve and returns a solution: every step of a running call
\* lowers a measure that is never negative, a running call can always take
\* a step, and no round starts after the last generation.  On a
\* configuration where no course can be placed (maximum units 0) the
\* solution returned has empty terms and score 0.
GeneticTerminates ==
    /\ [][GeneticRunning => GeneticRank' < GeneticRank]_vars
    /\ [](cls = GeneticCls => (GeneticRank >= 0 /\ generation <= generations))
    /\ [](GeneticRunning => GeneticCanStep)
    /\ [](pc = "done" => returned)
    /\ []((GeneticReturned /\ constraints = NoUnits) =>
              /\ solution.quarters = <<>>
              /\ solution.total_score = 0)

\* the scheduler of population 10 ran its 5 generations on maximum units 0
LargePopulationReturned ==
    /\ GeneticReturned
    /\ population_size = LargePopulation
    /\ generation = LargeGenerations
    /\ constraints = NoUnits
    /\ courses # <<>>
    /\ solution.violations = <<NoValidScheduleViolation>>

\* a returned solution with a term over the maximum, infeasible for it
GeneticOverMaxInfeasible ==
    /\ GeneticConverted
    /\ TermsOver(ConfiguredMaxUnits) # {}
    /\ ~solution.feasible

(***************************************************************************)
(* Properties of the genetic operators.                                    *)
(***************************************************************************)
\* every individual of the population being evolved has at least one term
ParentsNonEmpty ==
    \A i \in 1..Len(population) : population[i] # <<>>

Shorter(a, b) == IF Len(a) < Len(b) THEN Len(a) ELSE Len(b)

\* C21: for every pair of non-empty parents _crossover picks a cut c with
\* 1 <= c <= min(len(p1), len(p2)) - 1 and returns the two children
\* p1[:c] + p2[c:] and p2[:c] + p1[c:], parents of exactly one term
\* included: a round of the while loop over a population of non-empty
\* individuals adds two such children and the call goes on.
CrossoverReturnsTwoChildren ==
    [][(/\ cls = GeneticCls
        /\ pc = "offspring"
        /\ Len(new_population) < population_size
        /\ ParentsNonEmpty)
       => /\ pc' = "offspring"
          /\ \E p1, p2 \in 1..Len(population) :
               \E c \in 1..(Shorter(population[p1], population[p2]) - 1) :
                  new_population' =
                      new_population
                          \o << Splice(population[p1], population[p2], c),
                                Splice(population[p2], population[p1], c) >>]_vars

(***************************************************************************)
(* Properties of the individuals of GeneticScheduler.                      *)
(***************************************************************************)
\* the population is as _initialize_population returned it
InitialPopulation == cls = GeneticCls /\ pc = "evaluate" /\ generation = 0

\* the terms of the individuals of the population
Individuals == {Deref(population[i], heap) : i \in 1..Len(population)}

\* every <<term, position>> of a list of terms
EntriesOf(terms) ==
    UNION {{<<k, i>> : i \in 1..Len(terms[k].courses)} : k \in 1..Len(terms)}

EntryAt(terms, p) == terms[p[1]].courses[p[2]]

\* p is in an earlier term than q, or earlier in the same term
PlacedBefore(p, q) == p[1] < q[1] \/ (p[1] = q[1] /\ p[2] < q[2])

UnitSum(term) ==
    SumSeq([i \in 1..Len(term.courses) |-> term.courses[i].units])

ConfiguredMaxQuarters ==
    ConstraintGet(constraints, "max_quarters", DefaultMaxQuarters)

\* C22: in every individual _create_random_schedule produced no course id
\* appears twice; every course is in a term whose season is one of its
\* offered seasons, with each of its prerequisites placed before it, in an
\* earlier term or earlier in the same term; each term holds at most 4
\* courses and at most the maximum units and is not empty; and the
\* individual has at most max_quarters terms.
RandomScheduleValid ==
    InitialPopulation =>
        \A terms \in Individuals :
            /\ \A p, q \in EntriesOf(terms) :
                   EntryAt(terms, p).id = EntryAt(terms, q).id => p = q
            /\ \A p \in EntriesOf(terms) :
                   \E n \in 1..Len(courses) :
                       /\ courses[n].course_id = EntryAt(terms, p).id
                       /\ InSeq(SeasonOfLabel[terms[p[1]].quarter],
                                courses[n].offered_quarters)
                       /\ \A j \in 1..Len(courses[n].prerequisites) :
                              \E q \in EntriesOf(terms) :
                                  /\ PlacedBefore(q, p)
                                  /\ EntryAt(terms, q).id =
                                         courses[n].prerequisites[j]
            /\ \A k \in 1..Len(terms) :
                   /\ terms[k].courses # <<>>
                   /\ Len(terms[k].courses) <= 4
                   /\ UnitSum(terms[k]) <= ConfiguredMaxUnits
            /\ Len(terms) <= ConfiguredMaxQuarters

\* the individuals of the population and of the population being made
AllIndividuals ==
    Individuals
        \cup {Deref(new_population[i], heap) : i \in 1..Len(new_population)}

\* C23: in every individual of every generation, and in the returned
\* solution, each term's total_units is the sum of the units of the courses
\* now in the term; crossover and mutation keep it so.
UnitTotalsKept ==
    cls = GeneticCls =>
        /\ \A terms \in AllIndividuals :
               \A k \in 1..Len(terms) :
                   terms[k].total_units = UnitSum(terms[k])
        /\ returned =>
               \A k \in 1..Len(solution.quarters) :
                   solution.quarters[k].total_units =
                       UnitSum(solution.quarters[k])

\* a returned solution one of whose terms changed its total in a mutation
\* after the individual was evaluated
MutatedTotalsReturned ==
    /\ GeneticConverted
    /\ Len(solution.quarters) = Len(best_evaluated)
    /\ \E k \in 1..Len(solution.quarters) :
           solution.quarters[k].total_units # best_evaluated[k].total_units

(***************************************************************************)
(* Properties of the search of ConstraintSatisfactionScheduler.            *)
(***************************************************************************)
\* the search of the call that returned, from the fields _setup_csp left
CspSearch == CSP_backtrack_search(variables, domains, <<>>)

\* the number of courses an assignment puts in a term
TermLoad(assignment, value) ==
    Len(SelectSeq(assignment, LAMBDA item : item[2] = value))

WithinFive(assignment) ==
    \A i \in 1..Len(assignment) : TermLoad(assignment, assignment[i][2]) <= 5

\* C25: at every step of the backtracking search and in the returned
\* solution no term holds more than 5 courses: a value is accepted for a
\* course only if the courses already assigned to that term and the
\* candidate number at most 5, and a rejected or backtracked value leaves
\* the partial assignment as it was before the attempt (the dict changes
\* only by these writes, and a del gives back the dict of before the set).
CspTermsWithinFive ==
    CspReturned =>
        LET writes == CspSearch.writes
        IN  /\ \A n \in 1..Len(writes) :
                   /\ WithinFive(writes[n].after)
                   /\ writes[n].before =
                          IF n = 1 THEN <<>> ELSE writes[n - 1].after
                   /\ writes[n].op = "set" =>
                          \E value \in 0..(max_quarters - 1) :
                              /\ writes[n].after =
                                     Append(writes[n].before,
                                            <<writes[n].var, value>>)
                              /\ TermLoad(writes[n].before, value) + 1 <= 5
                   /\ writes[n].op = "del" =>
                          \E m \in 1..(n - 1) :
                              /\ writes[m].op = "set"
                              /\ writes[m].var = writes[n].var
                              /\ writes[n].after = writes[m].before
            /\ \A k \in 1..Len(solution.quarters) :
                   Len(solution.quarters[k].courses) <= 5

\* six courses offered in Fall: the first term took five and the sixth
\* course, rejected there, is in the next Fall term
CspSixthCourseMoved ==
    /\ CspReturned
    /\ solution.feasible
    /\ Len(courses) = 6
    /\ Len(solution.quarters) = 2
    /\ Len(solution.quarters[1].courses) = 5
    /\ solution.quarters[2].quarter = "Fall 2025"

\* the lists that differ from cs in the prerequisites of its courses only
PrerequisiteVariants(cs) ==
    {[i \in 1..Len(cs) |-> [cs[i] EXCEPT !.prerequisites = prereqs[i]]] :
        prereqs \in [1..Len(cs) -> PrereqChoices]}

\* C24: the result of solve_schedule does not depend on the prerequisites
\* of the courses: called on a new scheduler with any list that differs
\* from the courses of the call in prerequisites only, and the same
\* constraints and horizon, it returns the same solution.
CspIgnoresPrerequisites ==
    (CspReturned /\ calls = 1) =>
        \A others \in PrerequisiteVariants(courses) :
            solve_schedule(EmptyDict, others, constraints, max_quarters).solution
                = solution

\* a feasible solution with a course in the term before its prerequisite's
CspPrerequisiteAfterCourse ==
    /\ CspReturned
    /\ calls = 1
    /\ solution.feasible
    /\ \E p, q \in Placements :
           /\ InSeq(PlacedAt(q).id, InputCourse(PlacedAt(p).id).prerequisites)
           /\ p[1] < q[1]

(***************************************************************************)
(* The scan of one term by GraphBasedScheduler.                            *)
(***************************************************************************)
\* the order in which the call scanned the courses
ScanOrder == topological_sort(course_graph)

\* the ids the returned solution has in the term of index quarter_idx, in
\* the order of their admission
AdmittedAt(quarter_idx) ==
    LET ks == {k \in 1..Len(solution.quarters) :
                  IndexOfLabel[solution.quarters[k].quarter] = quarter_idx}
    IN  IF ks = {} THEN <<>>
        ELSE LET term == solution.quarters[CHOOSE k \in ks : TRUE]
             IN  [i \in 1..Len(term.courses) |-> term.courses[i].id]

\* the ids admitted in the terms before quarter_idx
AdmittedBefore(quarter_idx) ==
    UNION {Range(AdmittedAt(earlier)) : earlier \in 0..(quarter_idx - 1)}

UnitsOfIds(ids) == SumSeq([i \in 1..Len(ids) |-> course_data[ids[i]].units])

\* the term has enough: units at least the minimum and 3 courses or more
HasEnough(ids) == UnitsOfIds(ids) >= ConfiguredMinUnits /\ Len(ids) >= 3

\* the ids admitted in the term that the scan met before id
AdmittedAhead(quarter_idx, id) ==
    SelectSeq(AdmittedAt(quarter_idx), LAMBDA other :
        \E i, j \in 1..Len(ScanOrder) :
            ScanOrder[i] = other /\ ScanOrder[j] = id /\ i < j)

\* C26: within one term GraphBasedScheduler stops admitting exactly when the
\* term's units are at least the minimum and at least 3 courses are in it:
\* no course was admitted after that point, and a course still to schedule
\* that the term left out either came after that point or failed the
\* prerequisite, season or maximum-unit check when the scan met it.
GraphStopsWhenEnough ==
    (GraphReturned /\ solution.feasible) =>
        \A quarter_idx \in 0..(HorizonQuarters - 1) :
            LET admitted == AdmittedAt(quarter_idx)
                done == AdmittedBefore(quarter_idx)
            IN  /\ \A n \in 1..(Len(admitted) - 1) :
                       ~HasEnough(SubSeq(admitted, 1, n))
                /\ \A i \in 1..Len(ScanOrder) :
                       LET id == ScanOrder[i]
                           ahead == AdmittedAhead(quarter_idx, id)
                       IN  (id \notin done /\ ~InSeq(id, admitted)) =>
                               \/ HasEnough(ahead)
                               \/ ~PrereqsCompleted(course_data[id],
                                                    done \cup Range(ahead))
                               \/ ~InSeq(SeasonOfIndex(quarter_idx),
                                         course_data[id].offered_quarters)
                               \/ UnitsOfIds(ahead) + course_data[id].units
                                      > ConfiguredMaxUnits

\* six courses of 4 units under a minimum of 16: the first term went on
\* past three courses to a fourth and stopped there
GraphFourthCourseAdmitted ==
    /\ GraphReturned
    /\ solution.feasible
    /\ ConfiguredMinUnits = 16
    /\ Len(solution.quarters) = 2
    /\ Len(solution.quarters[1].courses) = 4
    /\ Len(solution.quarters[2].courses) = 2

(***************************************************************************)
(* The greedy selection optimize_schedule_diversity is to make.            *)
(***************************************************************************)
\* the Jaccard distance of two schedules as <<numerator, denominator>>; the
\* similarity of an empty schedule to any schedule is 0
JaccardDistance(a, b) ==
    LET A == ScheduleCourseIds(a)
        B == ScheduleCourseIds(b)
    IN  IF a = <<>> \/ b = <<>> \/ A \cup B = {}
        THEN <<1, 1>>
        ELSE <<Cardinality(A \cup B) - Cardinality(A \cap B),
               Cardinality(A \cup B)>>

PairLess(x, y) == x[1] * y[2] < y[1] * x[2]

\* the least distance of the candidate at position p to the chosen ones
LeastDistance(schedules, p, chosen) ==
    LET distances == {JaccardDistance(schedules[p], schedules[chosen[i]]) :
                         i \in 1..Len(chosen)}
    IN  CHOOSE d \in distances : \A e \in distances : ~PairLess(e, d)

\* the positions selected: from those left, the earliest of the candidates
\* whose least distance to the chosen ones is largest, until k are chosen
\* or none is left
RECURSIVE GreedySelection(_, _, _, _)
GreedySelection(schedules, k, chosen, left) ==
    IF Len(chosen) >= k \/ left = {}
    THEN chosen
    ELSE LET farthest ==
                 {p \in left :
                     \A q \in left :
                         ~PairLess(LeastDistance(schedules, p, chosen),
                                   LeastDistance(schedules, q, chosen))}
             next == CHOOSE p \in farthest : \A q \in farthest : p <= q
         IN  GreedySelection(schedules, k, Append(chosen, next),
                             left \ {next})

\* C27: when len(candidates) > k, optimize_schedule_diversity starts from
\* candidates[0] and adds, step by step, the remaining candidate whose
\* least Jaccard distance to the selected ones is largest, the earliest on
\* ties, until k are selected or no candidate remains, and returns that
\* selection.
DiversityIsGreedy ==
    (fn = "optimize_schedule_diversity" /\ Len(fn_in[1]) > fn_in[2]) =>
        fn_out = [status |-> "returned",
                  selected |-> GreedySelection(fn_in[1], fn_in[2], <<1>>,
                                               2..Len(fn_in[1]))]

\* C28: optimize_schedule_diversity terminates for every candidate list and
\* every target count, the lists whose farthest remaining candidate is an
\* empty schedule included: the call returns.
DiversityTerminates ==
    fn = "optimize_schedule_diversity" => fn_out.status = "returned"

(***************************************************************************)
(* Properties of the returned terms.                                       *)
(***************************************************************************)
\* C29: whenever create_optimal_schedule returns feasible=true with no
\* violations, every course of the input is in the returned terms: the set
\* of scheduled ids is the set of input ids.
GraphSchedulesEveryCourse ==
    (GraphReturned /\ solution.feasible /\ solution.violations = <<>>) =>
        PlacedIds = InputIds

\* C30: in every solution any of the three strategies returns, the term
\* labels are in strictly increasing order of term index, hence pairwise
\* distinct, and no term is empty; for GeneticScheduler also after
\* crossovers of individuals whose terms are at different term indices.
ReturnedTermsInOrder ==
    returned =>
        /\ \A k \in 1..Len(solution.quarters) :
               solution.quarters[k].courses # <<>>
        /\ \A k \in 1..(Len(solution.quarters) - 1) :
               IndexOfLabel[solution.quarters[k].quarter]
                   < IndexOfLabel[solution.quarters[k + 1].quarter]

====
